---- MODULE Spec2Model ----
(***************************************************************************)
(* Model of src/app.py: the tCO2eq simulator for nitrogen fertilizers.     *)
(*                                                                         *)
(* Python floats are modelled as exact rationals [n |-> num, d |-> den]    *)
(* in lowest terms with d > 0, so that sums, products and comparisons are  *)
(* the mathematical ones (rounding is outside the model).  A Python int is *)
(* a rational with d = 1.  Input values are picked so that every           *)
(* intermediate numerator and denominator fits TLC's integers.             *)
(***************************************************************************)
EXTENDS Integers, Sequences, FiniteSets, TLC

VARIABLES
    dados_simulacao,   \* argument of analise_viabilidade_economica (a dict)
    retorno,           \* outcome of the last call of the analyzer
    st_error,          \* TRUE once st.error(...) was shown by the analyzer
    rng_fluxo,         \* np.random: the variates the generator seeded with
                       \* 50 yields, as far as they have been drawn
    rng_pos,           \* np.random: how many variates were consumed since
                       \* the last np.random.seed(50)
    params_base,       \* argument of simulacao_monte_carlo (a dict)
    n_simulacoes,      \* argument of simulacao_monte_carlo
    mc_pc,             \* position in simulacao_monte_carlo
    resultados_mc,     \* the local `resultados` of the running call
    mc_retorno,        \* what the last finished call returned
    mc_anterior,       \* what the call before that returned
    n_execucoes,       \* calls of simulacao_monte_carlo so far
    probabilidade,     \* main: np.mean(viabilidade) * 100
    problema,          \* argument of analise_sensibilidade_sobol
    n_amostras,        \* argument of analise_sensibilidade_sobol
    param_values,      \* the design matrix returned by sample(...)
    resultados_sobol,  \* the local `resultados` of the running call
    sobol_pc,          \* position in analise_sensibilidade_sobol
    si,                \* the indices analyze(...) returned
    sensibilidade_df,  \* main: the sensitivity table
    entradas,          \* main: sidebar inputs and session quotes
    resultados_cenarios, \* main: the scenario table
    mc_params,         \* the perturbed `params` of each trial of the running call
    chamada,           \* a call of one of the four model functions
    modelo_retorno,    \* what that call returned or raised
    metrica_preco_minimo,   \* main: the minimum-price metric of the summary
    conclusao_preco_minimo, \* main: the minimum price named in the conclusions
    resposta_investing,     \* what the carbon quote page answers
    resposta_awesome,       \* what the first FX service answers
    resposta_exchangerate,  \* what the second FX service answers
    consultas,              \* the services requested so far, in order
    cotacao_carbono,        \* what obter_cotacao_carbono returned
    cotacao_euro,           \* what obter_cotacao_euro_real returned
    session_state,          \* st.session_state: the keys present and their values
    radio_modo,             \* the mode the sidebar radio is set to
    rerun_de,               \* where st.rerun() was called, until the rerun starts
    execucao                \* what the last run of the script did

varsViab == <<dados_simulacao, retorno, st_error>>
varsRng == <<rng_fluxo, rng_pos>>
varsMC == <<params_base, n_simulacoes, mc_pc, resultados_mc, mc_retorno,
            mc_anterior, n_execucoes, probabilidade, mc_params>>
varsSobol == <<problema, n_amostras, param_values, resultados_sobol, sobol_pc,
               si, sensibilidade_df>>
varsCenarios == <<entradas, resultados_cenarios>>
varsModelo == <<chamada, modelo_retorno>>
varsResumo == <<metrica_preco_minimo, conclusao_preco_minimo>>
varsSessao == <<session_state, radio_modo, rerun_de, execucao>>
varsCotacao == <<resposta_investing, resposta_awesome, resposta_exchangerate,
                 consultas, cotacao_carbono, cotacao_euro, varsSessao>>
varsDemais == <<varsModelo, varsResumo, varsCotacao>>
varsOutros == <<varsSobol, varsCenarios, varsDemais>>
vars == <<varsViab, varsRng, varsMC, varsSobol, varsCenarios, varsDemais>>

----------------------------------------------------------------------------
(* Rational arithmetic standing for Python float / int arithmetic.         *)

Abs(x) == IF x < 0 THEN -x ELSE x

RECURSIVE GCD(_, _)
GCD(a, b) == IF b = 0 THEN a ELSE GCD(b, a % b)

Rat(n, d) ==
    LET g == GCD(Abs(n), Abs(d))
        s == IF d < 0 THEN -1 ELSE 1
    IN  IF n = 0 THEN [n |-> 0, d |-> 1]
        ELSE [n |-> s * (n \div g), d |-> s * (d \div g)]

Zero == Rat(0, 1)
One == Rat(1, 1)
Int2Rat(i) == Rat(i, 1)

RAdd(a, b) ==
    LET g == GCD(a.d, b.d)
        l == (a.d \div g) * b.d
    IN  Rat(a.n * (l \div a.d) + b.n * (l \div b.d), l)

RNeg(a) == [n |-> -a.n, d |-> a.d]
RSub(a, b) == RAdd(a, RNeg(b))

RMul(a, b) ==
    IF a.n = 0 \/ b.n = 0 THEN Zero
    ELSE LET g1 == GCD(Abs(a.n), b.d)
             g2 == GCD(Abs(b.n), a.d)
         IN  Rat((a.n \div g1) * (b.n \div g2), (a.d \div g2) * (b.d \div g1))

\* a / b for b # 0 (the caller decides what b = 0 does: ZeroDivisionError)
RDiv(a, b) == RMul(a, Rat(b.d, b.n))

RECURSIVE RPow(_, _)
RPow(a, k) == IF k = 0 THEN One ELSE RMul(a, RPow(a, k - 1))

RLt(a, b) == RSub(a, b).n < 0
RLe(a, b) == RSub(a, b).n <= 0
RGe(a, b) == RLe(b, a)
RGt(a, b) == RLt(b, a)
IsInt(a) == a.d = 1

RECURSIVE RSum(_)
RSum(s) == IF s = <<>> THEN Zero ELSE RAdd(Head(s), RSum(Tail(s)))

\* dict.get(key, default)
Get(dict, key, default) == IF key \in DOMAIN dict THEN dict[key] ELSE default

----------------------------------------------------------------------------
(* Texts: a text is a sequence of one-character strings                    *)

Digitos == {"0", "1", "2", "3", "4", "5", "6", "7", "8", "9"}

\* the character of a digit
DigitoDe(k) ==
    CASE k = 0 -> "0" [] k = 1 -> "1" [] k = 2 -> "2" [] k = 3 -> "3"
      [] k = 4 -> "4" [] k = 5 -> "5" [] k = 6 -> "6" [] k = 7 -> "7"
      [] k = 8 -> "8" [] k = 9 -> "9"

DigitoValor(c) ==
    CASE c = "0" -> 0 [] c = "1" -> 1 [] c = "2" -> 2 [] c = "3" -> 3
      [] c = "4" -> 4 [] c = "5" -> 5 [] c = "6" -> 6 [] c = "7" -> 7
      [] c = "8" -> 8 [] c = "9" -> 9

\* the characters of a text that satisfy a test, in order
RECURSIVE Filtra(_, _)
Filtra(texto, aceitos) ==
    IF texto = <<>> THEN <<>>
    ELSE IF Head(texto) \in aceitos
         THEN <<Head(texto)>> \o Filtra(Tail(texto), aceitos)
         ELSE Filtra(Tail(texto), aceitos)

\* lines 113 and 134: .replace(',', '')
RECURSIVE SemVirgulas(_)
SemVirgulas(texto) ==
    IF texto = <<>> THEN <<>>
    ELSE IF Head(texto) = "," THEN SemVirgulas(Tail(texto))
    ELSE <<Head(texto)>> \o SemVirgulas(Tail(texto))

\* lines 113-115: the commas removed, then the digits and dots joined
LimpaPreco(texto) == Filtra(SemVirgulas(texto), Digitos \cup {"."})

\* float(texto) succeeds on a text of digits with at most one dot
FloatValido(texto) ==
    /\ \A i \in 1..Len(texto) : texto[i] \in Digitos \cup {"."}
    /\ Filtra(texto, Digitos) # <<>>
    /\ Len(Filtra(texto, {"."})) <= 1

\* the integer a sequence of digits writes
RECURSIVE Inteiro(_)
Inteiro(ds) ==
    IF ds = <<>> THEN 0
    ELSE 10 * Inteiro(SubSeq(ds, 1, Len(ds) - 1)) + DigitoValor(ds[Len(ds)])

\* the number of characters after the dot, 0 without a dot
RECURSIVE Decimais(_)
Decimais(texto) ==
    IF texto = <<>> \/ Filtra(texto, {"."}) = <<>> THEN 0
    ELSE IF Head(texto) = "." THEN Len(texto) - 1
    ELSE Decimais(Tail(texto))

\* float(texto) for a valid text
Float(texto) ==
    RDiv(Int2Rat(Inteiro(Filtra(texto, Digitos))), RPow(Int2Rat(10), Decimais(texto)))

\* the decimal digits that write a natural number
RECURSIVE DigitosDe(_)
DigitosDe(k) ==
    IF k < 10 THEN <<DigitoDe(k)>>
    ELSE DigitosDe(k \div 10) \o <<DigitoDe(k % 10)>>

\* the digits in groups of three from the right, a separator between groups
RECURSIVE Agrupa(_, _)
Agrupa(ds, separador) ==
    IF Len(ds) <= 3 THEN ds
    ELSE Agrupa(SubSeq(ds, 1, Len(ds) - 3), separador) \o <<separador>>
            \o SubSeq(ds, Len(ds) - 2, Len(ds))

\* str.replace(de, para) for one-character arguments; para = "" removes
RECURSIVE Replace(_, _, _)
Replace(texto, de, para) ==
    IF texto = <<>> THEN <<>>
    ELSE (IF Head(texto) = de
          THEN (IF para = "" THEN <<>> ELSE <<para>>)
          ELSE <<Head(texto)>>) \o Replace(Tail(texto), de, para)

\* line 42: round(numero, 2) in hundredths, halves to the even hundredth
Round2(numero) ==
    LET a == Abs(numero.n)
        inteiro == a \div numero.d
        resto == (a % numero.d) * 100
        c == resto \div numero.d
        r == resto % numero.d
        centesimos == inteiro * 100 + c
        arredondado ==
            IF 2 * r > numero.d \/ (2 * r = numero.d /\ centesimos % 2 = 1)
            THEN centesimos + 1 ELSE centesimos
    IN  IF numero.n < 0 THEN -arredondado ELSE arredondado

\* lines 34-45: formatar_br of a number: f"{round(numero, 2):,.2f}" with the
\* separators exchanged (a negative number that rounds to zero keeps its
\* sign, as -0.0 does)
formatar_br(numero) ==
    LET centesimos == Abs(Round2(numero))
        decimais == DigitosDe(centesimos % 100)
    IN  (IF numero.n < 0 THEN <<"-">> ELSE <<>>)
        \o Replace(Replace(Replace(
                Agrupa(DigitosDe(centesimos \div 100), ",") \o <<".">>
                    \o (IF Len(decimais) = 1 THEN <<"0">> ELSE <<>>) \o decimais,
                ",", "X"), ".", ","), "X", ".")

\* float(texto) for a text of digits with one dot and an optional sign
FloatComSinal(texto) ==
    IF texto # <<>> /\ Head(texto) = "-"
    THEN RNeg(Float(Tail(texto)))
    ELSE Float(texto)

----------------------------------------------------------------------------
(* analise_viabilidade_economica                                           *)

PRECO_PRODUTO_PADRAO == 1000
ANOS_PADRAO == 10
TAXA_DESCONTO_PADRAO == Rat(6, 100)

\* line 467: fluxo_anual_ha
FluxoAnualHa(d) ==
    LET custo_convencional_ha == Get(d, "custo_convencional_ha", Zero)
        custo_crf_ha == Get(d, "custo_crf_ha", Zero)
        receita_carbono_ha == Get(d, "receita_carbono_ha", Zero)
        rendimento_adicional_ha == Get(d, "rendimento_adicional_ha", Zero)
        preco_produto == Get(d, "preco_produto", Int2Rat(PRECO_PRODUTO_PADRAO))
        custo_adicional_ha == RSub(custo_crf_ha, custo_convencional_ha)
        beneficio_rendimento_ha == RMul(rendimento_adicional_ha, preco_produto)
    IN  RSub(RAdd(receita_carbono_ha, beneficio_rendimento_ha), custo_adicional_ha)

\* mutant: the exponent starts at 0, as with `for ano in range(anos)`
FluxoDescontado_ExpoenteErrado(fluxo_anual_ha, taxa_desconto, ano) ==
    RDiv(fluxo_anual_ha, RPow(RAdd(One, taxa_desconto), ano - 1))

\* line 474: fluxo_anual_ha / ((1 + taxa_desconto) ** ano), for 1 + taxa # 0
FluxoDescontado(fluxo_anual_ha, taxa_desconto, ano) ==
    RDiv(fluxo_anual_ha, RPow(RAdd(One, taxa_desconto), ano))

\* mutant: the sign of the discounted flow is lost (abs of the flow)
FluxoCaixa_SemSinal(fluxo_anual_ha, taxa_desconto, anos) ==
    [ano \in 1..anos |->
        [n |-> Abs(FluxoDescontado(fluxo_anual_ha, taxa_desconto, ano).n),
         d |-> FluxoDescontado(fluxo_anual_ha, taxa_desconto, ano).d]]

\* lines 473-475: the list built by the loop over range(1, anos + 1)
FluxoCaixa(fluxo_anual_ha, taxa_desconto, anos) ==
    [ano \in 1..anos |-> FluxoDescontado(fluxo_anual_ha, taxa_desconto, ano)]

\* mutant: the payback test is strict (acumulado > 0)
RECURSIVE PaybackLoop_Estrito(_, _, _, _)
PaybackLoop_Estrito(fluxo_caixa, ano, acumulado, anos) ==
    IF ano > Len(fluxo_caixa) THEN anos + 1
    ELSE LET acc == RAdd(acumulado, fluxo_caixa[ano])
         IN  IF RGt(acc, Zero) THEN ano
             ELSE PaybackLoop_Estrito(fluxo_caixa, ano + 1, acc, anos)

\* mutant: without the guard and the break, the last year that has a
\* non-negative cumulative sum is kept
RECURSIVE PaybackLoop_SemBreak(_, _, _, _)
PaybackLoop_SemBreak(fluxo_caixa, ano, acumulado, anos) ==
    IF ano > Len(fluxo_caixa) THEN anos + 1
    ELSE LET acc == RAdd(acumulado, fluxo_caixa[ano])
             depois == PaybackLoop_SemBreak(fluxo_caixa, ano + 1, acc, anos)
         IN  IF RGe(acc, Zero) /\ depois = anos + 1 THEN ano ELSE depois

\* lines 480-487: the payback loop, from year `ano` with `acumulado` so far
RECURSIVE PaybackLoop(_, _, _, _)
PaybackLoop(fluxo_caixa, ano, acumulado, anos) ==
    IF ano > Len(fluxo_caixa) THEN anos + 1
    ELSE LET acc == RAdd(acumulado, fluxo_caixa[ano])
         IN  IF RGe(acc, Zero) THEN ano
             ELSE PaybackLoop(fluxo_caixa, ano + 1, acc, anos)

\* mutant: the except branch builds the series with the default horizon
ResultadoPadrao_DezAnos(d) ==
    LET anos == Get(d, "anos", Int2Rat(ANOS_PADRAO))
    IN  IF ~IsInt(anos) THEN [tipo |-> "excecao", erro |-> "TypeError"]
        ELSE [tipo |-> "valor",
              fluxo_caixa |-> [i \in 1..ANOS_PADRAO |-> Zero],
              vpl |-> Zero, tir |-> Zero, payback |-> anos.n + 1]

\* lines 489-496: the except branch; [0] * anos raises TypeError for a float
ResultadoPadrao(d) ==
    LET anos == Get(d, "anos", Int2Rat(ANOS_PADRAO))
    IN  IF ~IsInt(anos) THEN [tipo |-> "excecao", erro |-> "TypeError"]
        ELSE [tipo |-> "valor",
              fluxo_caixa |-> [i \in 1..anos.n |-> Zero],
              vpl |-> Zero, tir |-> Zero, payback |-> anos.n + 1]

\* lines 452-487: which exception, if any, the try block raises
ErroNoTry(d) ==
    LET anos == Get(d, "anos", Int2Rat(ANOS_PADRAO))
        taxa_desconto == Get(d, "taxa_desconto", TAXA_DESCONTO_PADRAO)
    IN  IF ~IsInt(anos) THEN "TypeError"
        ELSE IF anos.n >= 1 /\ RAdd(One, taxa_desconto) = Zero
             THEN "ZeroDivisionError"
        ELSE "nenhum"

\* lines 441-498: the whole function
analise_viabilidade_economica(d) ==
    LET anos == Get(d, "anos", Int2Rat(ANOS_PADRAO))
        taxa_desconto == Get(d, "taxa_desconto", TAXA_DESCONTO_PADRAO)
        fluxo_caixa == FluxoCaixa(FluxoAnualHa(d), taxa_desconto, anos.n)
    IN  IF ErroNoTry(d) # "nenhum" THEN ResultadoPadrao(d)
        ELSE [tipo |-> "valor",
              fluxo_caixa |-> fluxo_caixa,
              vpl |-> RSum(fluxo_caixa), tir |-> Zero,
              payback |-> PaybackLoop(fluxo_caixa, 1, Zero, anos.n)]

----------------------------------------------------------------------------
(* The engines before their first call                                     *)

Nenhum == [tipo |-> "nenhum"]

ViabOcioso ==
    /\ dados_simulacao = Nenhum
    /\ retorno = Nenhum
    /\ st_error = FALSE

SobolOcioso ==
    /\ problema = Nenhum
    /\ n_amostras = 0
    /\ param_values = <<>>
    /\ resultados_sobol = <<>>
    /\ sobol_pc = "ocioso"
    /\ si = Nenhum
    /\ sensibilidade_df = <<>>

CenariosOcioso ==
    /\ entradas = Nenhum
    /\ resultados_cenarios = <<>>

ModeloOcioso ==
    /\ chamada = Nenhum
    /\ modelo_retorno = Nenhum

ResumoOcioso ==
    /\ metrica_preco_minimo = Nenhum
    /\ conclusao_preco_minimo = Nenhum

\* a session no run of the script has touched: st.session_state is empty and
\* the radio is at its first option (line 900, index=0)
SessaoVazia == [k \in {} |-> FALSE]

SessaoNova ==
    /\ session_state = SessaoVazia
    /\ radio_modo = "Simulacao de Viabilidade"
    /\ rerun_de = "nenhum"
    /\ execucao = Nenhum

ProvedoresOciosos ==
    /\ resposta_investing = Nenhum
    /\ resposta_awesome = Nenhum
    /\ resposta_exchangerate = Nenhum
    /\ consultas = <<>>
    /\ cotacao_carbono = Nenhum
    /\ cotacao_euro = Nenhum

CotacaoOcioso == ProvedoresOciosos /\ SessaoNova

DemaisOcioso == ModeloOcioso /\ ResumoOcioso /\ CotacaoOcioso

----------------------------------------------------------------------------
(* Study registry and the deterministic model                              *)

DADOS_ARTIGOS ==
    [ji_et_al |->
        [emissao_convencional |-> Rat(814, 10), emissao_crf |-> Rat(696, 10),
         area |-> "m2", conversao_ha |-> Rat(1, 100),
         reducao_percentual |-> Rat(145, 10),
         reducao_rendimento |-> Rat(-5, 1)],
     shakoor_et_al |->
        [emissao_convencional |-> Rat(286, 100), emissao_crf |-> Rat(210, 100),
         area |-> "ha", conversao_ha |-> One,
         reducao_percentual |-> Rat(265, 10),
         aumento_rendimento |-> Rat(3, 1)],
     zhang_et_al_2025 |->
        [emissao_convencional |-> Rat(91, 100), emissao_crf |-> Rat(37, 100),
         area |-> "ha", conversao_ha |-> One,
         reducao_percentual |-> Rat(594, 10),
         aumento_rendimento |-> Rat(115, 10)]]

Estudos == DOMAIN DADOS_ARTIGOS

FATOR_N_PARA_N2O == Rat(44, 28)
GWP_N2O == 273
TEOR_N_UREIA == Rat(46, 100)
TEOR_N_CRF == Rat(42, 100)

\* mutant: the kilogram-to-tonne division is left out
converter_emissao_para_tCO2eq_SemTonelada(emissao_kg_N_ha, area_ha) ==
    LET tco2eq == RMul(RMul(emissao_kg_N_ha, FATOR_N_PARA_N2O), Int2Rat(GWP_N2O))
    IN  <<RMul(tco2eq, area_ha), tco2eq>>

\* returns <<total_tco2eq, tco2eq>>; Python's [0] and [1] are [1] and [2]
converter_emissao_para_tCO2eq(emissao_kg_N_ha, area_ha) ==
    LET emissao_n2o_t == RDiv(RMul(emissao_kg_N_ha, FATOR_N_PARA_N2O), Int2Rat(1000))
        tco2eq == RMul(emissao_n2o_t, Int2Rat(GWP_N2O))
    IN  <<RMul(tco2eq, area_ha), tco2eq>>

\* the labels a caller may pass as `tipo`
Rotulos == {"convencional", "Convencional", "crf", "CRF", "organico"}

\* str.lower() on those labels
Lower(tipo) ==
    CASE tipo = "Convencional" -> "convencional"
      [] tipo = "CRF" -> "crf"
      [] OTHER -> tipo

\* mutant: both branches divide by the nitrogen content of urea
calcular_custo_fertilizante_TeorUnico(tipo, area_ha, preco_ureia, preco_crf, dosagem_n) ==
    LET custo_ha ==
            IF Lower(tipo) = "convencional"
            THEN RMul(RDiv(RDiv(dosagem_n, TEOR_N_UREIA), Int2Rat(1000)), preco_ureia)
            ELSE RMul(RDiv(RDiv(dosagem_n, TEOR_N_UREIA), Int2Rat(1000)), preco_crf)
    IN  <<RMul(custo_ha, area_ha), custo_ha>>

\* returns <<custo_total, custo_ha>>
calcular_custo_fertilizante(tipo, area_ha, preco_ureia, preco_crf, dosagem_n) ==
    LET custo_ha ==
            IF Lower(tipo) = "convencional"
            THEN RMul(RDiv(RDiv(dosagem_n, TEOR_N_UREIA), Int2Rat(1000)), preco_ureia)
            ELSE RMul(RDiv(RDiv(dosagem_n, TEOR_N_CRF), Int2Rat(1000)), preco_crf)
    IN  <<RMul(custo_ha, area_ha), custo_ha>>

\* mutant: the impact of the study is applied without its sign
calcular_rendimento_SemSinal(tipo, rendimento_base, area_ha, estudo) ==
    LET dados == DADOS_ARTIGOS[estudo]
        fator_ajuste ==
            IF Lower(tipo) = "convencional" THEN One
            ELSE IF estudo = "ji_et_al"
                 THEN RAdd(One, RDiv(RNeg(dados.reducao_rendimento), Int2Rat(100)))
                 ELSE RAdd(One, RDiv(dados.aumento_rendimento, Int2Rat(100)))
        rendimento_ajustado_ha == RMul(rendimento_base, fator_ajuste)
    IN  <<RMul(rendimento_ajustado_ha, area_ha), rendimento_ajustado_ha>>

\* returns <<rendimento_total, rendimento_ajustado_ha>>
calcular_rendimento(tipo, rendimento_base, area_ha, estudo) ==
    LET dados == DADOS_ARTIGOS[estudo]
        fator_ajuste ==
            IF Lower(tipo) = "convencional" THEN One
            ELSE IF estudo = "ji_et_al"
                 THEN RAdd(One, RDiv(dados.reducao_rendimento, Int2Rat(100)))
                 ELSE RAdd(One, RDiv(dados.aumento_rendimento, Int2Rat(100)))
        rendimento_ajustado_ha == RMul(rendimento_base, fator_ajuste)
    IN  <<RMul(rendimento_ajustado_ha, area_ha), rendimento_ajustado_ha>>

\* returns <<receita_real, receita_eur>>
calcular_receita_carbono(reducao_tco2eq, preco_carbono, taxa_cambio) ==
    LET receita_eur == RMul(reducao_tco2eq, preco_carbono)
    IN  <<RMul(receita_eur, taxa_cambio), receita_eur>>

\* main, lines 1040-1046: <<emissao_conv_kg, emissao_crf_kg>> of a study
EmissoesKg(estudo) ==
    LET dados_estudo == DADOS_ARTIGOS[estudo]
    IN  IF dados_estudo.area = "m2"
        THEN <<RMul(dados_estudo.emissao_convencional, Rat(1, 100)),
               RMul(dados_estudo.emissao_crf, Rat(1, 100))>>
        ELSE <<dados_estudo.emissao_convencional, dados_estudo.emissao_crf>>

----------------------------------------------------------------------------
(* np.random: the process-global generator                                 *)
(*                                                                         *)
(* np.random.seed(50) puts the generator at the start of one fixed stream  *)
(* of standard normal variates.  The stream's values are not known to the  *)
(* model: each is chosen when it is first drawn and recorded in rng_fluxo, *)
(* and drawn again unchanged after a new seed(50).                         *)

MaxSimulacoes == 2
MaxExecucoes == 2

\* the variates one loop iteration may draw, in the order of the calls
ZVetores == {<<0, 0, 0, 0, 0, 0>>, <<-6, -6, -6, -6, -6, -6>>,
             <<1, -1, 2, 1, -1, 1>>}

\* line 17: np.random.seed(50)
RngSemeado == rng_fluxo = <<>> /\ rng_pos = 0

\* the next k variates of the stream, as sequences <<z1, .., zk>>
Sorteios(fluxo, pos, k) ==
    IF pos + k <= Len(fluxo) THEN {SubSeq(fluxo, pos + 1, pos + k)}
    ELSE {SubSeq(fluxo, pos + 1, Len(fluxo)) \o SubSeq(v, 1, pos + k - Len(fluxo)) :
            v \in ZVetores}

\* np.random.normal(loc, scale) with the standard variate z
Normal(loc, scale, z) == RAdd(loc, RMul(scale, Int2Rat(z)))

----------------------------------------------------------------------------
(* simulacao_monte_carlo                                                   *)

RAbs(a) == [n |-> Abs(a.n), d |-> a.d]

\* lines 535-539: the yield draw happens only when the key is present
NumSorteios(pb) == IF "aumento_rendimento" \in DOMAIN pb THEN 6 ELSE 5

\* lines 516-549: params = params_base.copy() with the perturbed entries
ParamsSorteados(pb, z) ==
    LET k == IF "aumento_rendimento" \in DOMAIN pb THEN 1 ELSE 0
    IN  [key \in DOMAIN pb |->
            CASE key = "emissao_convencional" ->
                    Normal(pb[key], RMul(pb[key], Rat(2, 10)), z[1])
              [] key = "emissao_crf" ->
                    Normal(pb[key], RMul(pb[key], Rat(2, 10)), z[2])
              [] key = "preco_carbono" ->
                    Normal(pb[key], RMul(pb[key], Rat(3, 10)), z[3])
              [] key = "aumento_rendimento" ->
                    Normal(pb[key], RMul(RAbs(pb[key]), Rat(1, 10)), z[4])
              [] key = "preco_ureia" ->
                    Normal(pb[key], RMul(pb[key], Rat(15, 100)), z[4 + k])
              [] key = "preco_crf" ->
                    Normal(pb[key], RMul(pb[key], Rat(15, 100)), z[5 + k])
              [] OTHER -> pb[key]]

\* lines 552-555
ReducaoHaMC(params) ==
    converter_emissao_para_tCO2eq(
        RSub(params["emissao_convencional"], params["emissao_crf"]), One)[1]

\* lines 557-584: fluxo_anual_ha of one iteration
FluxoAnualMC(params) ==
    LET receita_ha ==
            calcular_receita_carbono(ReducaoHaMC(params), params["preco_carbono"],
                                     Get(params, "taxa_cambio", Rat(55, 10)))[1]
        dosagem_n == Get(params, "dosagem_n", Int2Rat(240))
        custo_convencional_ha ==
            calcular_custo_fertilizante("convencional", One, params["preco_ureia"],
                                        params["preco_crf"], dosagem_n)[2]
        custo_crf_ha ==
            calcular_custo_fertilizante("crf", One, params["preco_ureia"],
                                        params["preco_crf"], dosagem_n)[2]
        custo_adicional_ha == RSub(custo_crf_ha, custo_convencional_ha)
        beneficio_rendimento_ha ==
            IF Get(params, "estudo", "None") \in {"shakoor_et_al", "zhang_et_al_2025"}
            THEN RMul(RMul(Get(params, "rendimento_base", Int2Rat(5)),
                           RDiv(Get(params, "aumento_rendimento", Int2Rat(3)),
                                Int2Rat(100))),
                      Get(params, "preco_produto", Int2Rat(1000)))
            ELSE Zero
    IN  RSub(RAdd(receita_ha, beneficio_rendimento_ha), custo_adicional_ha)

\* mutant: the discounting runs over the years 0..4
FatorVPLSimplificado_AnoZero ==
    RSum([i \in 1..5 |-> RDiv(One, RPow(Rat(106, 100), i - 1))])

\* line 587: sum([1 / (1.06 ** (ano+1)) for ano in range(5)])
FatorVPLSimplificado ==
    RSum([i \in 1..5 |-> RDiv(One, RPow(Rat(106, 100), (i - 1) + 1))])

\* line 587: vpl = sum([fluxo_anual_ha / (1.06 ** (ano+1)) for ano in range(5)]).
\* The value is fluxo * fator; the product is kept unevaluated because its
\* numerator does not fit TLC's integers.
VplMC(fluxo_anual_ha) == [fluxo |-> fluxo_anual_ha, fator |-> FatorVPLSimplificado]

\* p > 0 for a product p = p.fluxo * p.fator
ProdPos(p) ==
    \/ p.fluxo.n > 0 /\ p.fator.n > 0
    \/ p.fluxo.n < 0 /\ p.fator.n < 0

\* mutant: the flag is inverted
Viabilidade_Invertida(vpl) == IF ProdPos(vpl) THEN 0 ELSE 1

\* line 591: 1 if vpl > 0 else 0
Viabilidade(vpl) == IF ProdPos(vpl) THEN 1 ELSE 0

\* lines 508-512
ResultadosVazios == [reducoes_tco2eq |-> <<>>, vpl |-> <<>>, viabilidade |-> <<>>]

\* lines 514-591: one iteration of the loop, drawing the variates z
IteracaoMC(res, pb, z) ==
    LET params == ParamsSorteados(pb, z)
        vpl == VplMC(FluxoAnualMC(params))
    IN  [reducoes_tco2eq |-> Append(res.reducoes_tco2eq, ReducaoHaMC(params)),
         vpl |-> Append(res.vpl, vpl),
         viabilidade |-> Append(res.viabilidade, Viabilidade(vpl))]

RECURSIVE Soma(_)
Soma(s) == IF s = <<>> THEN 0 ELSE Head(s) + Soma(Tail(s))

\* main, line 1255: np.mean(resultados_mc['viabilidade']) * 100
Probabilidade(viabilidade) ==
    RMul(Rat(Soma(viabilidade), Len(viabilidade)), Int2Rat(100))

\* main, lines 1115-1129: params_base_mc
ParamsBaseMC(estudo, preco_carbono, taxa_cambio, rendimento_base, preco_produto, preco_ureia, preco_crf, dosagem_n) ==
    LET base == [emissao_convencional |-> EmissoesKg(estudo)[1],
                 emissao_crf |-> EmissoesKg(estudo)[2],
                 preco_carbono |-> preco_carbono,
                 taxa_cambio |-> taxa_cambio,
                 estudo |-> estudo,
                 rendimento_base |-> rendimento_base,
                 preco_produto |-> preco_produto,
                 preco_ureia |-> preco_ureia,
                 preco_crf |-> preco_crf,
                 dosagem_n |-> dosagem_n]
    IN  IF estudo \in {"shakoor_et_al", "zhang_et_al_2025"}
        THEN [k \in DOMAIN base \cup {"aumento_rendimento"} |->
                IF k = "aumento_rendimento"
                THEN DADOS_ARTIGOS[estudo].aumento_rendimento ELSE base[k]]
        ELSE base

\* no call of simulacao_monte_carlo has happened
MCOcioso ==
    /\ params_base = Nenhum
    /\ n_simulacoes = 0
    /\ mc_pc = "ocioso"
    /\ resultados_mc = ResultadosVazios
    /\ mc_retorno = Nenhum
    /\ mc_anterior = Nenhum
    /\ n_execucoes = 0
    /\ probabilidade = Nenhum
    /\ mc_params = <<>>

InitMC ==
    \* main, lines 920-926 and 997-1003: `barra` is the horizon and the rate
    \* of the sidebar, which params_base_mc does not carry
    /\ \E estudo \in Estudos, n \in 1..MaxSimulacoes,
          barra \in {<<Int2Rat(50), 5, Rat(6, 100)>>,
                     <<Int2Rat(100), 10, Rat(10, 100)>>} :
            /\ entradas = [estudo |-> estudo, area_total |-> Int2Rat(100),
                           emissao_conv_kg |-> EmissoesKg(estudo)[1],
                           emissao_crf_kg |-> EmissoesKg(estudo)[2],
                           anos_simulacao |-> barra[2],
                           taxa_desconto |-> barra[3],
                           rendimento_base |-> Int2Rat(5),
                           preco_produto |-> Int2Rat(1000),
                           preco_ureia |-> Int2Rat(1150),
                           preco_crf |-> Int2Rat(2100),
                           dosagem_n |-> Int2Rat(240),
                           preco_carbono |-> barra[1],
                           taxa_cambio |-> Int2Rat(5)]
            /\ params_base = ParamsBaseMC(estudo, barra[1], Int2Rat(5),
                                          Int2Rat(5), Int2Rat(1000),
                                          Int2Rat(1150), Int2Rat(2100),
                                          Int2Rat(240))
            /\ n_simulacoes = n
    /\ mc_pc = "ocioso"
    /\ resultados_mc = ResultadosVazios
    /\ mc_retorno = Nenhum
    /\ mc_anterior = Nenhum
    /\ n_execucoes = 0
    /\ probabilidade = Nenhum
    /\ mc_params = <<>>
    /\ resultados_cenarios = <<>>
    /\ RngSemeado
    /\ DemaisOcioso
    /\ ViabOcioso
    /\ SobolOcioso

\* lines 504-512: simulacao_monte_carlo(params_base, n_simulacoes) is called
MCInicio ==
    /\ mc_pc = "ocioso"
    /\ n_execucoes < MaxExecucoes
    /\ mc_pc' = "laco"
    /\ resultados_mc' = ResultadosVazios
    /\ mc_params' = <<>>
    /\ probabilidade' = Nenhum
    /\ UNCHANGED <<params_base, n_simulacoes, mc_retorno, mc_anterior,
                   n_execucoes, varsRng, varsViab, varsOutros>>

\* lines 514-591: one iteration of `for i in range(n_simulacoes)`
MCIteracao ==
    /\ mc_pc = "laco"
    /\ Len(resultados_mc.vpl) < n_simulacoes
    /\ \E z \in Sorteios(rng_fluxo, rng_pos, NumSorteios(params_base)) :
        /\ resultados_mc' = IteracaoMC(resultados_mc, params_base, z)
        /\ mc_params' = Append(mc_params, ParamsSorteados(params_base, z))
        /\ rng_fluxo' = IF rng_pos + Len(z) <= Len(rng_fluxo) THEN rng_fluxo
                        ELSE SubSeq(rng_fluxo, 1, rng_pos) \o z
        /\ rng_pos' = rng_pos + Len(z)
    /\ UNCHANGED <<params_base, n_simulacoes, mc_pc, mc_retorno, mc_anterior,
                   n_execucoes, probabilidade, varsViab, varsOutros>>

\* line 593: return resultados
MCRetorno ==
    /\ mc_pc = "laco"
    /\ Len(resultados_mc.vpl) = n_simulacoes
    /\ mc_pc' = "retornou"
    /\ mc_retorno' = resultados_mc
    /\ mc_anterior' = mc_retorno
    /\ n_execucoes' = n_execucoes + 1
    /\ UNCHANGED <<params_base, n_simulacoes, resultados_mc, probabilidade,
                   mc_params, varsRng, varsViab, varsOutros>>

\* main, lines 1253-1260: the probability of viability shown to the user
ResumoEstatistico ==
    /\ mc_pc = "retornou"
    /\ probabilidade' = Probabilidade(mc_retorno.viabilidade)
    /\ mc_pc' = "ocioso"
    /\ UNCHANGED <<params_base, n_simulacoes, resultados_mc, mc_retorno,
                   mc_anterior, n_execucoes, mc_params, varsRng, varsViab,
                   varsOutros>>

\* line 17: the script runs again from the top: np.random.seed(50)
Semear ==
    /\ mc_pc = "ocioso"
    /\ rng_pos # 0
    /\ rng_pos' = 0
    /\ UNCHANGED <<rng_fluxo, varsMC, varsViab, varsOutros>>

NextMC == MCInicio \/ MCIteracao \/ MCRetorno \/ ResumoEstatistico \/ Semear

SpecMC == InitMC /\ [][NextMC]_vars

----------------------------------------------------------------------------
(* Inputs of the analyzer                                                  *)

MaxAnos == 3

Ausente == [n |-> 0, d |-> 0]
ChavesViab == {"custo_convencional_ha", "custo_crf_ha", "receita_carbono_ha",
               "rendimento_adicional_ha", "preco_produto", "anos",
               "taxa_desconto"}

ValoresViab(k) ==
    CASE k = "custo_convencional_ha" -> {Ausente, Rat(2, 1)}
      [] k = "custo_crf_ha" -> {Ausente, Rat(1, 1), Rat(3, 1)}
      [] k = "receita_carbono_ha" -> {Ausente, Rat(1, 2), Rat(2, 1)}
      [] k = "rendimento_adicional_ha" -> {Ausente, Rat(-1, 4), Rat(1, 2)}
      [] k = "preco_produto" -> {Ausente, Rat(2, 1)}
      [] k = "anos" -> {Ausente, Rat(5, 2)} \cup {Int2Rat(i) : i \in 0..MaxAnos}
      [] k = "taxa_desconto" ->
            {Ausente, Rat(-2, 1), Rat(-1, 1), Rat(-1, 2), Zero, Rat(1, 2),
             One}

\* the dict holding exactly the keys that were given a value
Dict(c) == [k \in {x \in DOMAIN c : c[x] # Ausente} |-> c[k]]

\* the numbers stay within TLC's integers: the default rate 0.06 = 3/50
\* is used with small flows only, and with the default horizon only for a
\* zero flow
Cabe(d) ==
    "taxa_desconto" \in DOMAIN d
    \/ FluxoAnualHa(d) = Zero
    \/ ("anos" \in DOMAIN d /\ RLe(FluxoAnualHa(d), Int2Rat(3))
        /\ RGe(FluxoAnualHa(d), Int2Rat(-3)))

\* lines 441-451: the call has not happened yet
Pendente == [tipo |-> "pendente"]

InitViab ==
    /\ \E cc \in ValoresViab("custo_convencional_ha"),
          cf \in ValoresViab("custo_crf_ha"),
          rc \in ValoresViab("receita_carbono_ha"),
          ra \in ValoresViab("rendimento_adicional_ha"),
          pp \in ValoresViab("preco_produto"),
          an \in ValoresViab("anos"),
          tx \in ValoresViab("taxa_desconto") :
            LET d == Dict([custo_convencional_ha |-> cc, custo_crf_ha |-> cf,
                           receita_carbono_ha |-> rc,
                           rendimento_adicional_ha |-> ra,
                           preco_produto |-> pp, anos |-> an,
                           taxa_desconto |-> tx])
            IN  Cabe(d) /\ dados_simulacao = d
    /\ retorno = Pendente
    /\ st_error = FALSE
    /\ RngSemeado
    /\ DemaisOcioso
    /\ MCOcioso
    /\ SobolOcioso
    /\ CenariosOcioso

\* one call of analise_viabilidade_economica(dados_simulacao)
AnaliseViabilidade ==
    /\ retorno = Pendente
    /\ retorno' = analise_viabilidade_economica(dados_simulacao)
    /\ st_error' = (ErroNoTry(dados_simulacao) # "nenhum")
    /\ UNCHANGED <<dados_simulacao, varsRng, varsMC, varsOutros>>

NextViab == AnaliseViabilidade

SpecViab == InitViab /\ [][NextViab]_vars

----------------------------------------------------------------------------
(* analise_sensibilidade_sobol                                             *)

MaxAmostras == 2

\* main, lines 1138-1152: the problem main passes
ProblemaMain ==
    [num_vars |-> 4,
     names |-> <<"Preco Carbono", "Aumento Rendimento", "Diferenca Emissoes",
                 "Custo Adicional">>,
     bounds |-> <<<<Int2Rat(50), Int2Rat(150)>>, <<Zero, Int2Rat(10)>>,
                  <<Rat(1, 10), Rat(15, 10)>>, <<Int2Rat(100), Int2Rat(500)>>>>]

\* a caller's problem with three parameters (no additional cost)
ProblemaTresParametros ==
    [num_vars |-> 3,
     names |-> <<"Preco Carbono", "Aumento Rendimento", "Diferenca Emissoes">>,
     bounds |-> <<<<Int2Rat(50), Int2Rat(150)>>, <<Zero, Int2Rat(10)>>,
                  <<Rat(1, 10), Rat(15, 10)>>>>]

\* the points of a problem a design may use: the lower corner, the centre
\* and the upper corner of the bounds
Cantos(prob) ==
    {[j \in 1..prob.num_vars |-> prob.bounds[j][1]],
     [j \in 1..prob.num_vars |->
        RDiv(RAdd(prob.bounds[j][1], prob.bounds[j][2]), Int2Rat(2))],
     [j \in 1..prob.num_vars |-> prob.bounds[j][2]]}

\* line 600: sample(problema, n_amostras) returns n * (2 * num_vars + 2) rows
\* of num_vars values inside the bounds.  SALib's sequence is not part of the
\* repository: the designs alternate two points of the problem.
Amostras(prob, n) ==
    {[i \in 1..(n * (2 * prob.num_vars + 2)) |-> IF i % 2 = 1 THEN a ELSE b] :
        a \in Cantos(prob), b \in Cantos(prob)}

\* line 605: the tuple assignment raises ValueError unless the row has
\* exactly four values
DesempacotaQuatro(parametros) == Len(parametros) = 4

\* lines 603-614: modelo_sobol, for a row of four values
modelo_sobol(parametros) ==
    LET preco_carbono == parametros[1]
        aumento_rendimento == parametros[2]
        diferenca_emissao == parametros[3]
        custo_adicional == parametros[4]
        reducao_tco2eq ==
            RMul(RDiv(RMul(diferenca_emissao, FATOR_N_PARA_N2O), Int2Rat(1000)),
                 Int2Rat(GWP_N2O))
        receita_carbono == RMul(RMul(reducao_tco2eq, preco_carbono), Rat(55, 10))
        beneficio_rendimento == RMul(aumento_rendimento, Int2Rat(1000))
    IN  RSub(RAdd(receita_carbono, beneficio_rendimento), custo_adicional)

\* mutant: the loop walks the design from its last row
LinhaAvaliada_Invertida(pv, feitos) == pv[Len(pv) - feitos]

\* line 618: the row `for params in param_values` hands to the model after
\* `feitos` rows have been evaluated
LinhaAvaliada(pv, feitos) == pv[feitos + 1]

\* line 622: analyze(...) returns one S1 and one ST per parameter.  SALib's
\* estimator is not part of the repository: the indices are any of these.
IndicesSobol(prob) ==
    {[S1 |-> s1, ST |-> st] :
        s1 \in {[j \in 1..prob.num_vars |-> Rat(j, 10)],
                [j \in 1..prob.num_vars |-> Rat(prob.num_vars - j, 10)]},
        st \in [1..prob.num_vars -> {Rat(1, 10), Rat(1, 2)}]}

\* main, lines 1231-1235: the rows of the DataFrame before sorting
LinhasSensibilidade(prob, ind) ==
    [j \in 1..prob.num_vars |->
        [Parametro |-> prob.names[j], S1 |-> ind.S1[j], ST |-> ind.ST[j]]]

\* the orderings of 1..n
Permutacoes(n) ==
    {p \in [1..n -> 1..n] : \A i, j \in 1..n : i # j => p[i] # p[j]}

\* mutant: the table is sorted with ascending=True
OrdenacoesPorST_Crescente(linhas) ==
    {[i \in 1..Len(linhas) |-> linhas[p[i]]] :
        p \in {q \in Permutacoes(Len(linhas)) :
                \A i, j \in 1..Len(linhas) :
                    i < j => RLe(linhas[q[i]].ST, linhas[q[j]].ST)}}

\* main, line 1235: sort_values('ST', ascending=False); pandas' default sort
\* is not stable, so rows of equal ST come in any order
OrdenacoesPorST(linhas) ==
    {[i \in 1..Len(linhas) |-> linhas[p[i]]] :
        p \in {q \in Permutacoes(Len(linhas)) :
                \A i, j \in 1..Len(linhas) :
                    i < j => RGe(linhas[q[i]].ST, linhas[q[j]].ST)}}

\* line 600: sample(problema, n_amostras) is handed the caller's dict itself.
\* SALib is not part of the repository: its scale_samples, which sample
\* calls, is documented to add the entry 'sample_scaled' to the problem it is
\* given, so the dict comes back either as it was or with that entry.
ProblemaAposSample(prob) ==
    {prob,
     [k \in DOMAIN prob \cup {"sample_scaled"} |->
        IF k = "sample_scaled" THEN TRUE ELSE prob[k]]}

InitSobol ==
    /\ problema \in {ProblemaMain, ProblemaTresParametros}
    /\ n_amostras \in 1..MaxAmostras
    /\ param_values = <<>>
    /\ resultados_sobol = <<>>
    /\ sobol_pc = "ocioso"
    /\ si = Nenhum
    /\ sensibilidade_df = <<>>
    /\ ViabOcioso
    /\ RngSemeado
    /\ DemaisOcioso
    /\ MCOcioso
    /\ CenariosOcioso

\* lines 595-617: the call, sample(...) and resultados = []
SobolAmostra ==
    /\ sobol_pc = "ocioso"
    /\ param_values' \in Amostras(problema, n_amostras)
    /\ resultados_sobol' = <<>>
    /\ sobol_pc' = "laco"
    /\ problema' \in ProblemaAposSample(problema)
    /\ UNCHANGED <<n_amostras, si, sensibilidade_df, varsViab, varsRng,
                   varsMC, varsCenarios, varsDemais>>

\* lines 618-619: one iteration of `for params in param_values`; an
\* exception of modelo_sobol is caught nowhere and ends the call
SobolIteracao ==
    /\ sobol_pc = "laco"
    /\ Len(resultados_sobol) < Len(param_values)
    /\ LET params == LinhaAvaliada(param_values, Len(resultados_sobol))
       IN  IF DesempacotaQuatro(params)
           THEN /\ resultados_sobol' = Append(resultados_sobol, modelo_sobol(params))
                /\ sobol_pc' = "laco"
           ELSE /\ resultados_sobol' = resultados_sobol
                /\ sobol_pc' = "excecao"
    /\ UNCHANGED <<problema, n_amostras, param_values, si, sensibilidade_df,
                   varsViab, varsRng, varsMC, varsCenarios, varsDemais>>

\* lines 621-624: analyze(...) and return si, param_values, resultados
SobolRetorno ==
    /\ sobol_pc = "laco"
    /\ Len(resultados_sobol) = Len(param_values)
    /\ si' \in IndicesSobol(problema)
    /\ sobol_pc' = "retornou"
    /\ UNCHANGED <<problema, n_amostras, param_values, resultados_sobol,
                   sensibilidade_df, varsViab, varsRng, varsMC, varsCenarios, varsDemais>>

\* main, lines 1231-1235: sensibilidade_df
TabelaSensibilidade ==
    /\ sobol_pc = "retornou"
    /\ sensibilidade_df = <<>>
    /\ sensibilidade_df' \in OrdenacoesPorST(LinhasSensibilidade(problema, si))
    /\ UNCHANGED <<problema, n_amostras, param_values, resultados_sobol, sobol_pc,
                   si, varsViab, varsRng, varsMC, varsCenarios, varsDemais>>

NextSobol == SobolAmostra \/ SobolIteracao \/ SobolRetorno \/ TabelaSensibilidade

SpecSobol == InitSobol /\ [][NextSobol]_vars

----------------------------------------------------------------------------
(* main: the basic calculations and the viability analysis (sections 1-2)  *)

\* main, lines 1049-1050: reducao_tco2eq_total
ReducaoTotal(e) ==
    converter_emissao_para_tCO2eq(RSub(e.emissao_conv_kg, e.emissao_crf_kg),
                                  e.area_total)[1]

\* main, lines 1053-1058: <<custo_conv_ha, custo_crf_ha>>
CustosHa(e) ==
    <<calcular_custo_fertilizante("convencional", e.area_total, e.preco_ureia,
                                  e.preco_crf, e.dosagem_n)[2],
      calcular_custo_fertilizante("crf", e.area_total, e.preco_ureia,
                                  e.preco_crf, e.dosagem_n)[2]>>

\* main, lines 1061-1066 and 1079: rendimento_crf_ha - rendimento_conv_ha
RendimentoAdicionalHa(e) ==
    RSub(calcular_rendimento("crf", e.rendimento_base, e.area_total, e.estudo)[2],
         calcular_rendimento("convencional", e.rendimento_base, e.area_total,
                             e.estudo)[2])

\* main, lines 1069-1101: the entries of dados_viabilidade the analysis reads
DadosViabilidade(e) ==
    LET receita_carbono_real ==
            calcular_receita_carbono(ReducaoTotal(e), e.preco_carbono,
                                     e.taxa_cambio)[1]
        receita_carbono_ha ==
            IF RGt(e.area_total, Zero) THEN RDiv(receita_carbono_real, e.area_total)
            ELSE Zero
    IN  [k \in ChavesViab |->
            CASE k = "custo_convencional_ha" -> CustosHa(e)[1]
              [] k = "custo_crf_ha" -> CustosHa(e)[2]
              [] k = "receita_carbono_ha" -> receita_carbono_ha
              [] k = "rendimento_adicional_ha" -> RendimentoAdicionalHa(e)
              [] k = "preco_produto" -> e.preco_produto
              [] k = "anos" -> Int2Rat(e.anos_simulacao)
              [] k = "taxa_desconto" -> e.taxa_desconto]

\* main, lines 1040-1108: the basic calculations and the viability analysis
ViabilidadeBase ==
    /\ retorno = Nenhum
    /\ dados_simulacao' = DadosViabilidade(entradas)
    /\ retorno' = analise_viabilidade_economica(DadosViabilidade(entradas))
    /\ st_error' = (ErroNoTry(DadosViabilidade(entradas)) # "nenhum")
    /\ UNCHANGED <<varsResumo, varsCenarios, varsModelo, varsCotacao, varsRng,
                   varsMC, varsSobol>>

----------------------------------------------------------------------------
(* main: the scenario analysis (section 8)                                 *)

\* mutant: the reduction is taken as treatment minus conventional
ReducaoKgN_Invertida(estudo) == RSub(EmissoesKg(estudo)[2], EmissoesKg(estudo)[1])

\* main, line 1049: reducao_kg_N
ReducaoKgN(estudo) == RSub(EmissoesKg(estudo)[1], EmissoesKg(estudo)[2])

\* max(0, x)
Max0(x) == IF RLt(x, Zero) THEN Zero ELSE x

\* main, lines 1325-1330: the names and carbon-price multipliers
Cenarios ==
    <<[nome |-> "Cenario Atual", multiplicador |-> One],
      [nome |-> "Mercado em Expansao", multiplicador |-> Rat(14, 10)],
      [nome |-> "Alta do Carbono", multiplicador |-> Rat(175, 100)],
      [nome |-> "Mercado Regulado", multiplicador |-> Rat(23, 10)]>>

\* main, lines 1334-1345: vpl_cenario for one carbon price
VplCenario(e, preco_carbono) ==
    LET reducao_tco2eq_total ==
            converter_emissao_para_tCO2eq(ReducaoKgN(e.estudo), e.area_total)[1]
        custo_conv_ha ==
            calcular_custo_fertilizante("convencional", e.area_total, e.preco_ureia,
                                        e.preco_crf, e.dosagem_n)[2]
        custo_crf_ha ==
            calcular_custo_fertilizante("crf", e.area_total, e.preco_ureia,
                                        e.preco_crf, e.dosagem_n)[2]
        rendimento_conv_ha ==
            calcular_rendimento("convencional", e.rendimento_base, e.area_total,
                                e.estudo)[2]
        rendimento_crf_ha ==
            calcular_rendimento("crf", e.rendimento_base, e.area_total, e.estudo)[2]
        receita_cenario ==
            calcular_receita_carbono(reducao_tco2eq_total, preco_carbono,
                                     e.taxa_cambio)[1]
        fluxo ==
            RAdd(RSub(RDiv(receita_cenario, e.area_total),
                      RSub(custo_crf_ha, custo_conv_ha)),
                 Max0(RMul(RSub(rendimento_crf_ha, rendimento_conv_ha),
                           e.preco_produto)))
    IN  RMul(RSum([ano \in 1..e.anos_simulacao |->
                    RDiv(fluxo, RPow(RAdd(One, e.taxa_desconto), ano))]),
             e.area_total)

\* main, lines 1347-1352: the row appended for one scenario; it keeps the
\* amount vpl_cenario next to the text of its 'VPL Total (R$)' column
LinhaCenario(nome, preco, vpl_cenario) ==
    [nome |-> nome,
     preco_carbono |-> preco,
     vpl_cenario |-> vpl_cenario,
     vpl_total |-> formatar_br(vpl_cenario),
     viavel |-> IF RGt(vpl_cenario, Zero) THEN "SIM" ELSE "NAO"]

\* main, lines 1332-1353: resultados_cenarios
ResultadosCenarios(e) ==
    [i \in 1..Len(Cenarios) |->
        LinhaCenario(Cenarios[i].nome,
                     RMul(e.preco_carbono, Cenarios[i].multiplicador),
                     VplCenario(e, RMul(e.preco_carbono, Cenarios[i].multiplicador)))]

\* main, line 1373: the amounts read back from the 'VPL Total (R$)' texts
VplValues(df) ==
    [i \in 1..Len(df) |->
        FloatComSinal(Replace(Replace(df[i].vpl_total, ".", ""), ",", "."))]

\* max(...) and min(...) of a list of numbers
MaxDe(valores) ==
    CHOOSE v \in {valores[i] : i \in 1..Len(valores)} :
        \A i \in 1..Len(valores) : RLe(valores[i], v)

MinDe(valores) ==
    CHOOSE v \in {valores[i] : i \in 1..Len(valores)} :
        \A i \in 1..Len(valores) : RLe(v, valores[i])

\* list.index(v): the first position that holds v (positions from 1)
Index(valores, v) ==
    CHOOSE i \in 1..Len(valores) :
        valores[i] = v /\ \A j \in 1..(i - 1) : valores[j] # v

\* main, lines 1377-1385: the background of the two VPL columns of a row
highlight_max_min(nome_da_linha, max_idx, min_idx) ==
    IF nome_da_linha = max_idx THEN "lightgreen"
    ELSE IF nome_da_linha = min_idx THEN "lightcoral"
    ELSE ""

\* main, lines 1374-1375: <<max_idx, min_idx>>
IndicesMaxMin(vpl_values) ==
    <<Index(vpl_values, MaxDe(vpl_values)), Index(vpl_values, MinDe(vpl_values))>>

\* main, lines 1377-1388: each row of the table with the background of its
\* VPL columns
TabelaDestacada(df_cenarios, indices) ==
    [i \in 1..Len(df_cenarios) |->
        [fundo_vpl |-> highlight_max_min(i, indices[1], indices[2])]
            @@ df_cenarios[i]]

\* main, lines 1355-1388: the table as it is shown
TabelaCenarios(e) ==
    TabelaDestacada(ResultadosCenarios(e), IndicesMaxMin(VplValues(ResultadosCenarios(e))))

\* main, lines 920-926: the horizon slider offers 5, 10, ..., 30 years; the
\* loop of lines 1341-1345 does the same work for each year, and the model
\* takes the horizons 1..MaxAnos
AnosCenarios == 1..MaxAnos

\* main, lines 997-1003: the slider offers the positive rates 1% .. 15%; the
\* model takes 12.5% of them and the larger positive rates 1/2 and 1, whose
\* powers stay small
TaxasCenarios == {Rat(125, 1000), Rat(1, 2), One}

\* lines 108-120 and 157-160: the quote scraped from the page is whatever
\* number its text writes (the selector branch has no range test); the model
\* takes no price, a thousandth of a euro and two usual prices
PrecosCarbonoCenarios == {Zero, Rat(1, 1000), Int2Rat(50), Int2Rat(100)}

\* main, lines 941-962: the fertilizer prices of the sliders: the pair the
\* other engines of the model use, and a pair with the same cost per hectare
\* for both fertilizers (240/0.46 x 2.3 = 240/0.42 x 2.1)
PrecosFertilizantes ==
    {<<Int2Rat(1150), Int2Rat(2100)>>, <<Int2Rat(2300), Int2Rat(2100)>>}

\* the inputs whose exact amounts stay within the 32-bit integers of TLC:
\* the smallest rate with at most two years, and the smallest carbon price
\* where the annual flow has no other term than the carbon revenue, is
\* discounted once and is converted at 5 reais a euro
CabeCenario(estudo, anos_simulacao, taxa_desconto, preco_carbono, taxa_cambio, precos) ==
    /\ taxa_desconto = Rat(125, 1000) => anos_simulacao <= 2
    /\ preco_carbono = Rat(1, 1000)
        => /\ estudo = "ji_et_al"
           /\ precos = <<Int2Rat(2300), Int2Rat(2100)>>
           /\ taxa_desconto = One
           /\ anos_simulacao = 1
           /\ taxa_cambio = Int2Rat(5)
    /\ precos = <<Int2Rat(2300), Int2Rat(2100)>>
        => preco_carbono \in {Rat(1, 1000), Int2Rat(50)}

\* main, lines 905-1046: the inputs of one simulation run
EntradasSimulacao ==
    {[estudo |-> estudo, area_total |-> area_total,
      emissao_conv_kg |-> EmissoesKg(estudo)[1],
      emissao_crf_kg |-> EmissoesKg(estudo)[2],
      anos_simulacao |-> anos_simulacao,
      taxa_desconto |-> taxa_desconto,
      rendimento_base |-> Int2Rat(5),
      preco_produto |-> Int2Rat(1000),
      preco_ureia |-> c[3][1],
      preco_crf |-> c[3][2],
      dosagem_n |-> Int2Rat(240),
      preco_carbono |-> c[1],
      taxa_cambio |-> c[2]] :
        estudo \in Estudos, area_total \in {Int2Rat(10), Int2Rat(20)},
        anos_simulacao \in AnosCenarios, taxa_desconto \in TaxasCenarios,
        c \in PrecosCarbonoCenarios \X {Int2Rat(5), Rat(55, 10), Int2Rat(6)}
                \X PrecosFertilizantes}

InitCenarios ==
    /\ entradas \in {e \in EntradasSimulacao :
                        CabeCenario(e.estudo, e.anos_simulacao, e.taxa_desconto,
                                    e.preco_carbono, e.taxa_cambio,
                                    <<e.preco_ureia, e.preco_crf>>)}
    /\ resultados_cenarios = <<>>
    /\ ViabOcioso
    /\ RngSemeado
    /\ DemaisOcioso
    /\ MCOcioso
    /\ SobolOcioso

\* main, lines 1319-1388: the scenario section of one simulation run
AnalisePorCenario ==
    /\ resultados_cenarios = <<>>
    /\ resultados_cenarios' = TabelaCenarios(entradas)
    /\ UNCHANGED <<entradas, varsViab, varsRng, varsMC, varsSobol, varsDemais>>

NextCenarios == AnalisePorCenario

SpecCenarios == InitCenarios /\ [][NextCenarios]_vars

\* the viability analysis and the scenario section of the same run; the
\* smallest carbon price is left out, since with it the flow of the base
\* analysis does not fit the 32-bit integers of TLC
InitCenarioBase ==
    /\ InitCenarios
    /\ entradas.preco_carbono # Rat(1, 1000)

NextCenarioBase == ViabilidadeBase \/ AnalisePorCenario

SpecCenarioBase == InitCenarioBase /\ [][NextCenarioBase]_vars

----------------------------------------------------------------------------
(* Calls of the four functions of the deterministic model                  *)

\* calls of converter_emissao_para_tCO2eq: the deltas of the three studies
\* (main, line 1049), none and a negative one
ChamadasConverter ==
    {[op |-> "converter_emissao_para_tCO2eq", emissao_kg_N_ha |-> d, area_ha |-> a] :
        d \in {ReducaoKgN(e) : e \in Estudos} \cup {Zero, Rat(-1, 10)},
        a \in {Int2Rat(1), Int2Rat(10), Int2Rat(100)}}

ChamadasCusto ==
    {[op |-> "calcular_custo_fertilizante", tipo |-> t, area_ha |-> a,
      preco_ureia |-> pr[1], preco_crf |-> pr[2], dosagem_n |-> dn] :
        t \in Rotulos, a \in {Int2Rat(1), Int2Rat(100)},
        pr \in {<<Int2Rat(1500), Int2Rat(2500)>>, <<Int2Rat(1150), Int2Rat(2100)>>},
        dn \in {Int2Rat(240), Int2Rat(100)}}

\* calls of calcular_rendimento, with the studies of the registry and an
\* identifier that is not in it
ChamadasRendimento ==
    {[op |-> "calcular_rendimento", tipo |-> t, rendimento_base |-> rb,
      area_ha |-> a, estudo |-> e] :
        t \in Rotulos, rb \in {Int2Rat(5), Rat(45, 10)},
        a \in {Int2Rat(10), Int2Rat(100)},
        e \in Estudos \cup {"estudo_desconhecido"}}

ChamadasReceita ==
    {[op |-> "calcular_receita_carbono", reducao_tco2eq |-> r, preco_carbono |-> pc,
      taxa_cambio |-> tc] :
        r \in {Zero, Rat(50622, 10000), Rat(-1, 2)},
        pc \in {Zero, Int2Rat(50), Rat(855, 10)},
        tc \in {One, Int2Rat(5), Rat(55, 10)}}

\* what a call does: the value returned, or the exception that leaves it
Executa(c) ==
    CASE c.op = "converter_emissao_para_tCO2eq" ->
            [tipo |-> "valor",
             valor |-> converter_emissao_para_tCO2eq(c.emissao_kg_N_ha, c.area_ha)]
      [] c.op = "calcular_custo_fertilizante" ->
            [tipo |-> "valor",
             valor |-> calcular_custo_fertilizante(c.tipo, c.area_ha, c.preco_ureia,
                                                   c.preco_crf, c.dosagem_n)]
      [] c.op = "calcular_rendimento" ->
            \* line 417: DADOS_ARTIGOS[estudo] raises KeyError for an unknown key
            IF c.estudo \notin Estudos
            THEN [tipo |-> "excecao", erro |-> "KeyError"]
            ELSE [tipo |-> "valor",
                  valor |-> calcular_rendimento(c.tipo, c.rendimento_base, c.area_ha,
                                                c.estudo)]
      [] c.op = "calcular_receita_carbono" ->
            [tipo |-> "valor",
             valor |-> calcular_receita_carbono(c.reducao_tco2eq, c.preco_carbono,
                                                c.taxa_cambio)]

InitModelo ==
    /\ chamada \in ChamadasConverter \cup ChamadasCusto \cup ChamadasRendimento
                    \cup ChamadasReceita
    /\ modelo_retorno = Nenhum
    /\ ResumoOcioso
    /\ CotacaoOcioso
    /\ ViabOcioso
    /\ RngSemeado
    /\ MCOcioso
    /\ SobolOcioso
    /\ CenariosOcioso

\* lines 374-439: the call runs
ChamadaModelo ==
    /\ modelo_retorno = Nenhum
    /\ modelo_retorno' = Executa(chamada)
    /\ UNCHANGED <<chamada, varsResumo, varsCotacao, varsViab, varsRng, varsMC,
                   varsSobol, varsCenarios>>

NextModelo == ChamadaModelo

SpecModelo == InitModelo /\ [][NextModelo]_vars

----------------------------------------------------------------------------
(* main: the base viability, the minimum carbon price of the summary and   *)
(* the conclusions                                                         *)

\* main, lines 1040-1046: the emissions main reads from the selected entry of
\* the registry: those of the three entries shipped, and those of an entry
\* whose treatment emits as much as, or more than, the conventional one
EmissoesDoRegistro(estudo) ==
    {EmissoesKg(estudo),
     <<EmissoesKg(estudo)[2], EmissoesKg(estudo)[2]>>,
     <<EmissoesKg(estudo)[2], EmissoesKg(estudo)[1]>>}

\* main, lines 1295-1299 and 1460-1462: reducao_ha
ReducaoHa(e) == RDiv(ReducaoTotal(e), e.area_total)

\* main, lines 1300-1301 and 1465-1466: <<preco_minimo_ha, preco_minimo_eur>>
PrecoMinimo(e) ==
    LET custo_adicional_ha == RSub(CustosHa(e)[2], CustosHa(e)[1])
        beneficio_rendimento_ha == Max0(RMul(RendimentoAdicionalHa(e), e.preco_produto))
        preco_minimo_ha ==
            RDiv(RSub(custo_adicional_ha, beneficio_rendimento_ha), ReducaoHa(e))
    IN  <<preco_minimo_ha, RDiv(preco_minimo_ha, e.taxa_cambio)>>

\* main, lines 1292-1314: the minimum-price metric of the summary
MetricaPrecoMinimo(e, resultados_viabilidade) ==
    IF RLt(resultados_viabilidade.vpl, Zero)
    THEN IF RGt(ReducaoHa(e), Zero)
         THEN [tipo |-> "valor", preco_minimo_eur |-> PrecoMinimo(e)[2],
               preco_minimo_ha |-> PrecoMinimo(e)[1]]
         ELSE [tipo |-> "N/A"]
    ELSE [tipo |-> "sem metrica"]

\* main, lines 1437-1478: the minimum price the conclusions name: none for a
\* viable project, else preco_minimo_eur if that local exists, else 0
ConclusaoPrecoMinimo(e, resultados_viabilidade) ==
    IF RGt(resultados_viabilidade.vpl, Zero) THEN [tipo |-> "sem preco"]
    ELSE IF RLt(resultados_viabilidade.vpl, Zero) /\ RGt(ReducaoHa(e), Zero)
         THEN [tipo |-> "valor", preco_minimo_eur |-> PrecoMinimo(e)[2]]
         ELSE [tipo |-> "valor", preco_minimo_eur |-> Zero]

InitResumo ==
    /\ \E estudo \in Estudos, area_total \in {Int2Rat(10), Int2Rat(100)},
          anos_simulacao \in 1..MaxAnos, taxa_desconto \in {Rat(1, 2), One},
          preco_carbono \in {Zero, Int2Rat(50), Int2Rat(100)},
          taxa_cambio \in {Int2Rat(5), Rat(55, 10)} :
            \E emissoes \in EmissoesDoRegistro(estudo) :
                entradas = [estudo |-> estudo, area_total |-> area_total,
                            emissao_conv_kg |-> emissoes[1],
                            emissao_crf_kg |-> emissoes[2],
                            anos_simulacao |-> anos_simulacao,
                            taxa_desconto |-> taxa_desconto,
                            rendimento_base |-> Int2Rat(5),
                            preco_produto |-> Int2Rat(1000),
                            preco_ureia |-> Int2Rat(1150),
                            preco_crf |-> Int2Rat(2100),
                            dosagem_n |-> Int2Rat(240),
                            preco_carbono |-> preco_carbono,
                            taxa_cambio |-> taxa_cambio]
    /\ resultados_cenarios = <<>>
    /\ ViabOcioso
    /\ ResumoOcioso
    /\ ModeloOcioso
    /\ CotacaoOcioso
    /\ RngSemeado
    /\ MCOcioso
    /\ SobolOcioso

\* main, lines 1292-1314: the summary
ResumoPrecoMinimo ==
    /\ retorno # Nenhum
    /\ metrica_preco_minimo = Nenhum
    /\ metrica_preco_minimo' = MetricaPrecoMinimo(entradas, retorno)
    /\ UNCHANGED <<conclusao_preco_minimo, varsViab, varsCenarios, varsModelo,
                   varsCotacao, varsRng, varsMC, varsSobol>>

\* main, lines 1434-1478: the conclusions
Conclusoes ==
    /\ metrica_preco_minimo # Nenhum
    /\ conclusao_preco_minimo = Nenhum
    /\ conclusao_preco_minimo' = ConclusaoPrecoMinimo(entradas, retorno)
    /\ UNCHANGED <<metrica_preco_minimo, varsViab, varsCenarios, varsModelo,
                   varsCotacao, varsRng, varsMC, varsSobol>>

NextResumo == ViabilidadeBase \/ ResumoPrecoMinimo \/ Conclusoes

SpecResumo == InitResumo /\ [][NextResumo]_vars

----------------------------------------------------------------------------
(* The quote providers                                                     *)

\* element texts a selector may find ("ausente": select_one returned None)
TextosElemento ==
    {<<"ausente">>,
     <<"7", "2", ".", "3", "5">>,
     <<"1", ",", "0", "7", "2", ".", "3", "5">>,
     <<"n", "/", "a">>,
     <<"1", ".", "2", ".", "3">>,
     <<"0">>}

\* lines 94-103: the page is searched with eight selectors; the model lets
\* the first and the last find an element
Seletores ==
    <<"[data-test=instrument-price-last]", ".text-2xl", ".last-price-value",
      ".instrument-price-last", ".pid-1062510-last", ".float_lang_base_1",
      ".top.bold.inlineblock", "#last_last">>

NumSeletores == Len(Seletores)

\* the texts the regular expressions of lines 125-130 may capture, in order
CapturasPadroes ==
    {<<>>, << <<",">> >>, << <<"3", "0">> >>, << <<"3", "0">>, <<"8", "5">> >>,
     << <<"2", "5", "0">> >>, << <<",">>, <<"1", "2", "0">> >>}

\* what the carbon page answers: an error of the request (timeout, HTTP
\* status), or a page with its elements and captures
RespostasInvesting ==
    {[tipo |-> "erro"]} \cup
    {[tipo |-> "pagina",
      elementos |-> [k \in 1..NumSeletores |->
                        IF k = 1 THEN a ELSE IF k = NumSeletores THEN b
                        ELSE <<"ausente">>],
      capturas |-> c] :
        a \in TextosElemento, b \in TextosElemento, c \in CapturasPadroes}

\* lines 108-119: the selector loop from selector k on; None if none parses
RECURSIVE PrecoPorSeletor(_, _)
PrecoPorSeletor(elementos, k) ==
    IF k > Len(elementos) THEN [tipo |-> "None"]
    ELSE LET texto_preco == LimpaPreco(elementos[k])
         IN  IF elementos[k] # <<"ausente">> /\ texto_preco # <<>>
                /\ FloatValido(texto_preco)
             THEN [tipo |-> "float", valor |-> Float(texto_preco)]
             ELSE PrecoPorSeletor(elementos, k + 1)

\* lines 132-139: the captures from capture k on; the first in (50, 200)
RECURSIVE PrecoPorPadrao(_, _)
PrecoPorPadrao(capturas, k) ==
    IF k > Len(capturas) THEN [tipo |-> "None"]
    ELSE LET preco_texto == SemVirgulas(capturas[k])
         IN  IF FloatValido(preco_texto)
                /\ RLt(Int2Rat(50), Float(preco_texto))
                /\ RLt(Float(preco_texto), Int2Rat(200))
             THEN [tipo |-> "float", valor |-> Float(preco_texto)]
             ELSE PrecoPorPadrao(capturas, k + 1)

\* lines 76-149: (preco, moeda, contrato_info, sucesso, fonte)
obter_cotacao_carbono_investing(resposta) ==
    LET falha(fonte) == [preco |-> [tipo |-> "None"], moeda |-> "None",
                         contrato_info |-> "None", sucesso |-> FALSE,
                         fonte |-> fonte]
        achado(preco) == [preco |-> preco, moeda |-> "EUR",
                          contrato_info |-> "Carbon Emissions Future",
                          sucesso |-> TRUE, fonte |-> "Investing.com"]
    IN  IF resposta.tipo = "erro" THEN falha("Investing.com - Erro")
        ELSE IF PrecoPorSeletor(resposta.elementos, 1).tipo = "float"
             THEN achado(PrecoPorSeletor(resposta.elementos, 1))
        ELSE IF PrecoPorPadrao(resposta.capturas, 1).tipo = "float"
             THEN achado(PrecoPorPadrao(resposta.capturas, 1))
        ELSE falha("Investing.com")

\* mutant: the reference value is returned as a live quote
obter_cotacao_carbono_ReferenciaAoVivo(resposta) ==
    LET r == obter_cotacao_carbono_investing(resposta)
    IN  IF r.sucesso THEN r
        ELSE [preco |-> [tipo |-> "float", valor |-> Rat(8550, 100)],
              moeda |-> "EUR", contrato_info |-> "Carbon Emissions (Referencia)",
              sucesso |-> TRUE, fonte |-> "Referencia"]

\* mutant: a failed scrape is passed on as it is
obter_cotacao_carbono_SemReferencia(resposta) ==
    obter_cotacao_carbono_investing(resposta)

\* lines 151-162
obter_cotacao_carbono(resposta) ==
    LET r == obter_cotacao_carbono_investing(resposta)
    IN  IF r.sucesso THEN r
        ELSE [preco |-> [tipo |-> "float", valor |-> Rat(8550, 100)],
              moeda |-> "EUR", contrato_info |-> "Carbon Emissions (Referencia)",
              sucesso |-> FALSE, fonte |-> "Referencia"]

\* what the first FX service answers: an error of the request, a status
\* other than 200, a body that is not JSON, or JSON with or without the
\* bid, which is a text
RespostasAwesome ==
    {[tipo |-> "erro"], [tipo |-> "status", codigo |-> 500],
     [tipo |-> "corpo invalido"], [tipo |-> "json", chaves |-> {}]} \cup
    {[tipo |-> "json", chaves |-> {"EURBRL.bid"}, bid |-> b] :
        b \in {<<"5", ".", "4", "3">>, <<"6">>, <<"n", "/", "d">>}}

\* what the second FX service answers; its rate is a JSON number
RespostasExchangeRate ==
    {[tipo |-> "erro"], [tipo |-> "status", codigo |-> 500],
     [tipo |-> "corpo invalido"], [tipo |-> "json", chaves |-> {}]} \cup
    {[tipo |-> "json", chaves |-> {"rates.BRL"}, brl |-> v] :
        v \in {Rat(543, 100), Rat(587, 100)}}

\* lines 168-176: the first try block returns a quote
AwesomeResponde(resposta) ==
    /\ resposta.tipo = "json"
    /\ "EURBRL.bid" \in resposta.chaves
    /\ FloatValido(resposta.bid)

\* lines 178-188: the second try block returns a quote
ExchangeRateResponde(resposta) ==
    /\ resposta.tipo = "json"
    /\ "rates.BRL" \in resposta.chaves

\* lines 164-191: (cotacao, moeda, sucesso, fonte)
obter_cotacao_euro_real(awesome, exchangerate) ==
    IF AwesomeResponde(awesome)
    THEN [cotacao |-> [tipo |-> "float", valor |-> Float(awesome.bid)],
          moeda |-> "R$", sucesso |-> TRUE, fonte |-> "AwesomeAPI"]
    ELSE IF ExchangeRateResponde(exchangerate)
    THEN [cotacao |-> [tipo |-> "float", valor |-> exchangerate.brl],
          moeda |-> "R$", sucesso |-> TRUE, fonte |-> "ExchangeRate-API"]
    ELSE [cotacao |-> [tipo |-> "float", valor |-> Rat(550, 100)],
          moeda |-> "R$", sucesso |-> FALSE, fonte |-> "Referencia"]

\* lines 170 and 181: the requests obter_cotacao_euro_real makes
ConsultasEuro(awesome) ==
    IF AwesomeResponde(awesome) THEN <<"awesomeapi">>
    ELSE <<"awesomeapi", "exchangerate-api">>

InitCotacao ==
    /\ resposta_investing \in RespostasInvesting
    /\ resposta_awesome \in RespostasAwesome
    /\ resposta_exchangerate \in RespostasExchangeRate
    /\ consultas = <<>>
    /\ cotacao_carbono = Nenhum
    /\ cotacao_euro = Nenhum
    /\ SessaoNova
    /\ ModeloOcioso
    /\ ResumoOcioso
    /\ ViabOcioso
    /\ RngSemeado
    /\ MCOcioso
    /\ SobolOcioso
    /\ CenariosOcioso

\* lines 151-162 with 76-149: one call of obter_cotacao_carbono
ObterCotacaoCarbono ==
    /\ cotacao_carbono = Nenhum
    /\ cotacao_carbono' = obter_cotacao_carbono(resposta_investing)
    /\ consultas' = consultas \o <<"investing">>
    /\ UNCHANGED <<resposta_investing, resposta_awesome, resposta_exchangerate,
                   cotacao_euro, varsSessao, varsModelo, varsResumo, varsViab, varsRng, varsMC,
                   varsSobol, varsCenarios>>

\* lines 164-191: one call of obter_cotacao_euro_real
ObterCotacaoEuroReal ==
    /\ cotacao_euro = Nenhum
    /\ cotacao_euro' = obter_cotacao_euro_real(resposta_awesome, resposta_exchangerate)
    /\ consultas' = consultas \o ConsultasEuro(resposta_awesome)
    /\ UNCHANGED <<resposta_investing, resposta_awesome, resposta_exchangerate,
                   cotacao_carbono, varsSessao, varsModelo, varsResumo, varsViab, varsRng,
                   varsMC, varsSobol, varsCenarios>>

NextCotacao == ObterCotacaoCarbono \/ ObterCotacaoEuroReal

SpecCotacao == InitCotacao /\ [][NextCotacao]_vars

----------------------------------------------------------------------------
(* The session: st.session_state over the runs of the script. Every user   *)
(* event and every st.rerun() starts one run, from line 319 to the end of  *)
(* main or to the first st.rerun() or exception.                           *)

ModoSimulacao == "Simulacao de Viabilidade"
ModoMetodologia == "Detalhes Metodologicos dos Artigos"

\* st.session_state.k = v
Com(ss, k, v) == (k :> v) @@ ss

\* if 'k' not in st.session_state: st.session_state.k = v
Padrao(ss, k, v) == ss @@ (k :> v)

\* the answers a run may get from the three services
RespostasInvestingSessao ==
    {r \in RespostasInvesting :
        \/ r.tipo = "erro"
        \/ /\ r.tipo = "pagina"
           /\ r.elementos[1] \in {<<"ausente">>, <<"7", "2", ".", "3", "5">>}
           /\ r.elementos[NumSeletores] = <<"ausente">>
           /\ r.capturas \in {<<>>, << <<"3", "0">>, <<"8", "5">> >>}}

RespostasAwesomeSessao ==
    {r \in RespostasAwesome :
        \/ r.tipo = "erro"
        \/ r.tipo = "json" /\ r.chaves # {} /\ r.bid # <<"6">>}

RespostasExchangeRateSessao ==
    {r \in RespostasExchangeRate :
        \/ r.tipo = "erro"
        \/ r.tipo = "json" /\ r.chaves # {} /\ r.brl = Rat(587, 100)}

RespostasSessao ==
    [investing : RespostasInvestingSessao, awesome : RespostasAwesomeSessao,
     exchangerate : RespostasExchangeRateSessao]

\* lines 298, 305, 222 and 225: what the two calls of a fetch may return
CotacoesSessao ==
    {[carbono |-> obter_cotacao_carbono(r.investing),
      euro |-> obter_cotacao_euro_real(r.awesome, r.exchangerate)] :
        r \in RespostasSessao}

\* lines 296-306: the entries fetched for what the session lacks; rede
\* holds what the calls return
CotacoesQueFaltam(ss, rede) ==
    (IF "preco_carbono" \notin DOMAIN ss
     THEN [preco_carbono |-> rede.carbono.preco,
           moeda_carbono |-> rede.carbono.moeda,
           fonte_cotacao |-> rede.carbono.fonte]
     ELSE SessaoVazia)
    @@ (IF "taxa_cambio" \notin DOMAIN ss
        THEN [taxa_cambio |-> rede.euro.cotacao, moeda_real |-> rede.euro.moeda]
        ELSE SessaoVazia)

\* lines 295-316
inicializar_session_state(ss, rede) ==
    CotacoesQueFaltam(ss, rede) @@ ss
       @@ [moeda_real |-> "R$", cotacao_atualizada |-> FALSE,
           mostrar_atualizacao |-> FALSE, cotacao_carregada |-> FALSE]

\* lines 242-262: the three metrics can be rendered; formatar_br and the
\* product of line 256 need numbers
MetricasLegiveis(ss) ==
    /\ {"moeda_carbono", "preco_carbono", "fonte_cotacao", "moeda_real",
        "taxa_cambio"} \subseteq DOMAIN ss
    /\ ss["preco_carbono"].tipo = "float"
    /\ ss["taxa_cambio"].tipo = "float"

\* mutant: the refresh leaves its flags set
AtualizaCotacoes_SemReset(ss, rede) ==
    [preco_carbono |-> rede.carbono.preco, moeda_carbono |-> rede.carbono.moeda,
     taxa_cambio |-> rede.euro.cotacao, moeda_real |-> rede.euro.moeda,
     fonte_cotacao |-> rede.carbono.fonte] @@ ss

\* lines 219-236: both quotes are fetched and stored, the flags reset
AtualizaCotacoes(ss, rede) ==
    [preco_carbono |-> rede.carbono.preco, moeda_carbono |-> rede.carbono.moeda,
     taxa_cambio |-> rede.euro.cotacao, moeda_real |-> rede.euro.moeda,
     fonte_cotacao |-> rede.carbono.fonte,
     mostrar_atualizacao |-> FALSE, cotacao_atualizada |-> FALSE] @@ ss

\* lines 200-262: the session it leaves, whether it refreshed, whether it
\* called st.rerun() (line 239), whether it rendered the metrics
exibir_cotacao_carbono(ss, clicou_atualizar, rede) ==
    LET s1 == IF ~Get(ss, "cotacao_carregada", FALSE)
              THEN Com(Com(ss, "mostrar_atualizacao", TRUE),
                       "cotacao_carregada", TRUE)
              ELSE ss
        s2 == IF clicou_atualizar
              THEN Com(Com(s1, "cotacao_atualizada", TRUE),
                       "mostrar_atualizacao", TRUE)
              ELSE s1
    IN  IF Get(s2, "mostrar_atualizacao", FALSE)
        THEN [ss |-> AtualizaCotacoes(s2, rede), atualizou |-> TRUE,
              rerun |-> TRUE, metricas |-> FALSE, erro |-> "nenhum"]
        ELSE [ss |-> s2, atualizou |-> FALSE, rerun |-> FALSE,
              metricas |-> MetricasLegiveis(s2),
              erro |-> IF MetricasLegiveis(s2) THEN "nenhum" ELSE "TypeError"]

\* lines 897-1013: the buttons of the sidebar, one per mode of the radio
BotoesDaBarra(ss, radio, gatilho) ==
    IF radio = ModoSimulacao
    THEN IF gatilho = "executar"
         THEN Com(Com(ss, "executar_simulacao", TRUE), "modo_operacao", "simulacao")
         ELSE ss
    ELSE IF gatilho = "detalhes"
         THEN Com(Com(ss, "executar_simulacao", TRUE), "modo_operacao", "metodologia")
         ELSE ss

\* lines 1016-1036: the branch main takes. estudo_selecionado is assigned
\* only under the radio's simulation mode (line 905), and line 1036 reads it
Despacho(ss, radio, gatilho) ==
    IF ~ss["executar_simulacao"]
    THEN [ss |-> ss, ramo |-> "nenhum", rerun |-> FALSE, erro |-> "nenhum"]
    ELSE IF ss["modo_operacao"] = "metodologia"
    THEN IF gatilho = "voltar"
         THEN [ss |-> Com(ss, "executar_simulacao", FALSE), ramo |-> "metodologia",
               rerun |-> TRUE, erro |-> "nenhum"]
         ELSE [ss |-> ss, ramo |-> "metodologia", rerun |-> FALSE, erro |-> "nenhum"]
    ELSE [ss |-> ss, ramo |-> "simulacao", rerun |-> FALSE,
          erro |-> IF radio = ModoSimulacao THEN "nenhum" ELSE "UnboundLocalError"]

\* line 319 and main (lines 889-1037): one run of the script started by
\* gatilho, with the radio at radio
Execucao(ss, radio, gatilho, origem, rede_inicial, rede) ==
    LET s0 == inicializar_session_state(ss, rede_inicial)
        x  == exibir_cotacao_carbono(s0, gatilho = "atualizar", rede)
        s1 == BotoesDaBarra(x.ss, radio, gatilho)
        s2 == Padrao(Padrao(s1, "executar_simulacao", FALSE),
                     "modo_operacao", "simulacao")
        d  == Despacho(s2, radio, gatilho)
        registro == [gatilho |-> gatilho, origem |-> origem,
                     atualizou |-> x.atualizou, metricas |-> x.metricas]
    IN  IF x.rerun \/ x.erro # "nenhum"
        THEN [ss |-> x.ss,
              rerun_de |-> IF x.rerun THEN "exibir_cotacao_carbono" ELSE "nenhum",
              execucao |-> registro @@
                           [barra |-> "nenhuma", ramo |-> "nenhum",
                            rerun |-> x.rerun, erro |-> x.erro]]
        ELSE [ss |-> d.ss,
              rerun_de |-> IF d.rerun THEN "main" ELSE "nenhum",
              execucao |-> registro @@
                           [barra |-> radio, ramo |-> d.ramo,
                            rerun |-> d.rerun, erro |-> d.erro]]

\* no request is made
SemRede == {[carbono |-> Nenhum, euro |-> Nenhum]}

\* lines 296 and 303: inicializar_session_state asks the services only for
\* what the session lacks
RedeDeInicializar(ss) ==
    IF {"preco_carbono", "taxa_cambio"} \subseteq DOMAIN ss THEN SemRede
    ELSE CotacoesSessao

\* line 219: exibir_cotacao_carbono asks the services only in a refresh
RedeDeExibir(ss, gatilho) ==
    IF gatilho = "atualizar" \/ ~Get(ss, "cotacao_carregada", FALSE)
       \/ Get(ss, "mostrar_atualizacao", FALSE)
    THEN CotacoesSessao ELSE SemRede

\* one run of the script: the session, the pending rerun and the record of
\* the run are replaced together
ExecutaScript(radio, gatilho) ==
    \E rede_inicial \in RedeDeInicializar(session_state) :
    \E rede \in RedeDeExibir(inicializar_session_state(session_state, rede_inicial), gatilho) :
        LET r == Execucao(session_state, radio, gatilho, rerun_de, rede_inicial, rede)
        IN  /\ session_state' = r.ss
            /\ rerun_de' = r.rerun_de
            /\ execucao' = r.execucao
            /\ radio_modo' = radio

\* the page is on screen with its sidebar and no rerun is on its way
BarraNaTela ==
    /\ execucao # Nenhum
    /\ rerun_de = "nenhum"
    /\ execucao.barra # "nenhuma"

OutrasOciosas ==
    UNCHANGED <<resposta_investing, resposta_awesome, resposta_exchangerate,
                consultas, cotacao_carbono, cotacao_euro, varsModelo, varsResumo,
                varsViab, varsRng, varsMC, varsSobol, varsCenarios>>

InitSessao ==
    /\ ProvedoresOciosos
    /\ SessaoNova
    /\ ModeloOcioso
    /\ ResumoOcioso
    /\ ViabOcioso
    /\ RngSemeado
    /\ MCOcioso
    /\ SobolOcioso
    /\ CenariosOcioso

\* the browser opens the page: the first run of the session
PrimeiraCarga ==
    /\ execucao = Nenhum
    /\ ExecutaScript(radio_modo, "abrir")
    /\ OutrasOciosas

\* st.rerun() (lines 239 and 1030): the script runs again at once
ExecucaoAutomatica ==
    /\ rerun_de # "nenhum"
    /\ ExecutaScript(radio_modo, "rerun")
    /\ OutrasOciosas

\* line 214: a click on "Atualizar Cotacoes"
ClicarAtualizarCotacoes ==
    /\ execucao # Nenhum
    /\ rerun_de = "nenhum"
    /\ execucao.erro # "TypeError"
    /\ ExecutaScript(radio_modo, "atualizar")
    /\ OutrasOciosas

\* line 897: the user picks the other mode of the radio
EscolherModo ==
    /\ BarraNaTela
    /\ ExecutaScript(IF radio_modo = ModoSimulacao THEN ModoMetodologia ELSE ModoSimulacao, "radio")
    /\ OutrasOciosas

\* lines 904-1004: the user changes a parameter of the simulation
MudarParametro ==
    /\ BarraNaTela
    /\ radio_modo = ModoSimulacao
    /\ ExecutaScript(radio_modo, "parametro")
    /\ OutrasOciosas

\* line 1006: a click on "Executar Simulacao Completa"
ClicarExecutarSimulacao ==
    /\ BarraNaTela
    /\ radio_modo = ModoSimulacao
    /\ ExecutaScript(radio_modo, "executar")
    /\ OutrasOciosas

\* line 1011: a click on "Ver Detalhes Metodologicos"
ClicarVerDetalhes ==
    /\ BarraNaTela
    /\ radio_modo = ModoMetodologia
    /\ ExecutaScript(radio_modo, "detalhes")
    /\ OutrasOciosas

\* line 1028: a click on "Voltar para Simulacao"
ClicarVoltar ==
    /\ BarraNaTela
    /\ execucao.ramo = "metodologia"
    /\ ExecutaScript(radio_modo, "voltar")
    /\ OutrasOciosas

NextSessao ==
    \/ PrimeiraCarga
    \/ ExecucaoAutomatica
    \/ ClicarAtualizarCotacoes
    \/ EscolherModo
    \/ MudarParametro
    \/ ClicarExecutarSimulacao
    \/ ClicarVerDetalhes
    \/ ClicarVoltar

SpecSessao == InitSessao /\ [][NextSessao]_vars

\* the rerun st.rerun() asks for is always carried out
SpecSessaoJusta == SpecSessao /\ WF_vars(ExecucaoAutomatica)

----------------------------------------------------------------------------
(* Claims about analise_viabilidade_economica (SpecViab)                   *)

\* the values the call used, with the documented defaults
AnosUsado == Get(dados_simulacao, "anos", Int2Rat(ANOS_PADRAO))
TaxaUsada == Get(dados_simulacao, "taxa_desconto", TAXA_DESCONTO_PADRAO)

\* carbon revenue + extra yield x price - (CRF cost - conventional cost)
FluxoConstante ==
    LET g(k, def) == Get(dados_simulacao, k, def)
    IN  RSub(RAdd(g("receita_carbono_ha", Zero),
                  RMul(g("rendimento_adicional_ha", Zero),
                       g("preco_produto", Int2Rat(1000)))),
             RSub(g("custo_crf_ha", Zero), g("custo_convencional_ha", Zero)))

\* sum of x^t for t = 1..h
RECURSIVE SomaPotencias(_, _)
SomaPotencias(x, h) ==
    IF h = 0 THEN Zero ELSE RAdd(RPow(x, h), SomaPotencias(x, h - 1))

\* the cumulative sum of the first t entries of a series
RECURSIVE Acumulado(_, _)
Acumulado(serie, t) ==
    IF t = 0 THEN Zero ELSE RAdd(Acumulado(serie, t - 1), serie[t])

\* the years of a series whose cumulative sum is >= 0
AnosRecuperados(serie) ==
    {t \in 1..Len(serie) : RGe(Acumulado(serie, t), Zero)}

Menor(S) == CHOOSE x \in S : \A y \in S : x <= y

\* C1: for a horizon >= 1 and a discount rate in [0,1], the returned NPV is
\* the constant flow times the sum of 1/(1+rate)^t for t = 1..horizon, and
\* it is the sum of the returned cash-flow series.
C1_VplSomaDescontada ==
    (retorno.tipo = "valor" /\ AnosUsado.n >= 1
        /\ RGe(TaxaUsada, Zero) /\ RLe(TaxaUsada, One))
    => /\ retorno.vpl =
            RMul(FluxoConstante,
                 SomaPotencias(RDiv(One, RAdd(One, TaxaUsada)), AnosUsado.n))
       /\ retorno.vpl = Acumulado(retorno.fluxo_caixa, Len(retorno.fluxo_caixa))

C1_Witness ==
    /\ retorno.tipo = "valor"
    /\ AnosUsado.n = MaxAnos
    /\ TaxaUsada = Rat(1, 2)
    /\ FluxoConstante.n < 0
    /\ retorno.vpl # Zero

\* C2: for an integer horizon >= 1 the returned series has exactly horizon
\* entries, on the normal path and on the catch-and-default path.
C2_ComprimentoSerie ==
    (retorno.tipo = "valor" /\ AnosUsado.n >= 1)
    => Len(retorno.fluxo_caixa) = AnosUsado.n

C2_Witness ==
    /\ retorno.tipo = "valor"
    /\ st_error
    /\ "anos" \in DOMAIN dados_simulacao
    /\ AnosUsado.n = 2
    /\ Len(retorno.fluxo_caixa) = 2

\* C3 as stated: the payback is the smallest year whose cumulative sum of
\* the returned series is >= 0, and horizon+1 exactly when there is none.
C3_PaybackMenorAno ==
    retorno.tipo = "valor"
    => /\ retorno.payback \in 1..(AnosUsado.n + 1)
       /\ IF AnosRecuperados(retorno.fluxo_caixa) = {}
          THEN retorno.payback = AnosUsado.n + 1
          ELSE retorno.payback = Menor(AnosRecuperados(retorno.fluxo_caixa))

\* C3 amended: that holds when the computation raised no error; on the
\* catch-and-default path the series is all zeros and the payback is
\* horizon+1.  The payback is always an integer in 1..horizon+1.
C3_PaybackMenorAnoSemErro ==
    retorno.tipo = "valor"
    => /\ retorno.payback \in 1..(AnosUsado.n + 1)
       /\ IF st_error
          THEN /\ retorno.payback = AnosUsado.n + 1
               /\ \A t \in 1..Len(retorno.fluxo_caixa) :
                    retorno.fluxo_caixa[t] = Zero
          ELSE IF AnosRecuperados(retorno.fluxo_caixa) = {}
          THEN retorno.payback = AnosUsado.n + 1
          ELSE retorno.payback = Menor(AnosRecuperados(retorno.fluxo_caixa))

C3_Witness ==
    /\ retorno.tipo = "valor"
    /\ ~st_error
    /\ AnosUsado.n = MaxAnos
    /\ retorno.payback = 2

\* C4 as stated: a negative annual net flow gives payback = horizon+1.
C4_FluxoNegativoSemPayback ==
    (retorno.tipo = "valor" /\ FluxoConstante.n < 0)
    => retorno.payback = AnosUsado.n + 1

\* C4 amended: a negative annual net flow and a discount rate >= -1 give
\* payback = horizon+1.
C4_FluxoNegativoTaxaValida ==
    (retorno.tipo = "valor" /\ FluxoConstante.n < 0
        /\ RGe(TaxaUsada, Int2Rat(-1)))
    => retorno.payback = AnosUsado.n + 1

C4_Witness ==
    /\ retorno.tipo = "valor"
    /\ ~st_error
    /\ FluxoConstante.n < 0
    /\ TaxaUsada = Rat(1, 2)
    /\ AnosUsado.n = MaxAnos
    /\ retorno.payback = MaxAnos + 1

\* C5: the call never raises: it returns a result for any input, with the
\* defaults for missing keys, and the sentinel result (all-zero series of
\* length horizon, NPV 0, payback horizon+1) after a computation error.
C5_NuncaFalha ==
    retorno # Pendente
    => /\ retorno.tipo = "valor"
       /\ st_error =>
            /\ retorno.fluxo_caixa = [i \in 1..AnosUsado.n |-> Zero]
            /\ retorno.vpl = Zero
            /\ retorno.payback = AnosUsado.n + 1

----------------------------------------------------------------------------
(* Claims about simulacao_monte_carlo (SpecMC)                             *)

\* the trials of a result whose NPV is positive (the discount factor is > 0)
TrialsPositivos(res) == {i \in 1..Len(res.vpl) : res.vpl[i].fluxo.n > 0}

\* the three lists have length N and viabilidade[i] is 1 exactly when
\* vpl[i] > 0
ListasDoRetorno ==
    mc_retorno # Nenhum =>
        /\ Len(mc_retorno.vpl) = n_simulacoes
        /\ Len(mc_retorno.viabilidade) = n_simulacoes
        /\ Len(mc_retorno.reducoes_tco2eq) = n_simulacoes
        /\ FatorVPLSimplificado.n > 0
        /\ \A i \in 1..n_simulacoes :
            mc_retorno.viabilidade[i] =
                IF i \in TrialsPositivos(mc_retorno) THEN 1 ELSE 0

\* C6 as stated: the three lists have length N, viabilidade[i] is 1 exactly
\* when vpl[i] > 0, and the reported probability of viability is
\* count(NPV > 0) / N, a number in [0, 1].
C6_ProbabilidadeFracao ==
    /\ ListasDoRetorno
    /\ probabilidade # Nenhum =>
        /\ probabilidade =
                Rat(Cardinality(TrialsPositivos(mc_retorno)), n_simulacoes)
        /\ RGe(probabilidade, Zero)
        /\ RLe(probabilidade, One)

\* C6 amended: the three lists have length N, viabilidade[i] is 1 exactly
\* when vpl[i] > 0, and the reported probability of viability is the
\* percentage 100 * count(NPV > 0) / N, a number in [0, 100].
C6_ProbabilidadeViabilidade ==
    /\ ListasDoRetorno
    /\ probabilidade # Nenhum =>
        /\ probabilidade =
                RMul(Rat(Cardinality(TrialsPositivos(mc_retorno)), n_simulacoes),
                     Int2Rat(100))
        /\ RGe(probabilidade, Zero)
        /\ RLe(probabilidade, Int2Rat(100))

C6_Witness ==
    /\ mc_pc = "ocioso"
    /\ n_simulacoes = 2
    /\ probabilidade = Int2Rat(50)
    /\ mc_retorno.viabilidade = <<1, 0>>

\* C7: two runs with the same seed and the same inputs return the same
\* per-trial NPVs, also when one follows the other in the same process.
C7_MesmaSementeMesmoResultado ==
    (mc_anterior # Nenhum /\ mc_retorno # Nenhum)
    => mc_anterior.vpl = mc_retorno.vpl

----------------------------------------------------------------------------
(* Claims about the scenario analysis (SpecCenarios)                       *)

----------------------------------------------------------------------------
(* Claims about analise_sensibilidade_sobol (SpecSobol)                    *)

\* C10: a design row that cannot be evaluated is replaced by 0, the other
\* rows are still evaluated and the batch never aborts.
C10_LoteNuncaAborta ==
    /\ sobol_pc # "excecao"
    /\ sobol_pc = "retornou" =>
        /\ Len(resultados_sobol) = Len(param_values)
        /\ \A i \in 1..Len(param_values) :
            ~DesempacotaQuatro(param_values[i]) => resultados_sobol[i] = Zero

\* C11: the sensitivity table is sorted in descending order of ST and is a
\* permutation of the (name, S1, ST) triples of the parameters.
C11_TabelaOrdenadaPorST ==
    sensibilidade_df # <<>>
    => /\ Len(sensibilidade_df) = problema.num_vars
       /\ \A i, j \in 1..Len(sensibilidade_df) :
            i < j => RGe(sensibilidade_df[i].ST, sensibilidade_df[j].ST)
       /\ \A k \in 1..problema.num_vars :
            Cardinality({i \in 1..Len(sensibilidade_df) :
                sensibilidade_df[i] = [Parametro |-> problema.names[k],
                                       S1 |-> si.S1[k], ST |-> si.ST[k]]}) = 1

C11_Witness ==
    /\ Len(sensibilidade_df) = 4
    /\ si.ST = <<Rat(1, 10), Rat(1, 2), Rat(1, 10), Rat(1, 2)>>
    /\ sensibilidade_df[1].Parametro = "Custo Adicional"
    /\ sensibilidade_df[4].Parametro = "Preco Carbono"

\* C20: the model is evaluated once for every row of the design matrix of
\* N x (2k+2) rows, and the returned results are paired with the rows:
\* results[i] is the model applied to param_values[i].
C20_ResultadosPareados ==
    sobol_pc = "retornou"
    => /\ Len(param_values) = n_amostras * (2 * problema.num_vars + 2)
       /\ Len(resultados_sobol) = Len(param_values)
       /\ \A i \in 1..Len(param_values) :
            resultados_sobol[i] = modelo_sobol(param_values[i])

C20_Witness ==
    /\ sobol_pc = "retornou"
    /\ Len(resultados_sobol) = 20
    /\ resultados_sobol[1] # resultados_sobol[2]

----------------------------------------------------------------------------
(* Claims about the deterministic model (SpecModelo)                       *)

\* |a - b| < tol
Perto(a, b, tol) == RLt(RSub(a, b), tol) /\ RLt(RSub(b, a), tol)

ChamadaJi100 ==
    /\ chamada.op = "converter_emissao_para_tCO2eq"
    /\ chamada.emissao_kg_N_ha = ReducaoKgN("ji_et_al")
    /\ chamada.area_ha = Int2Rat(100)

\* C12: per_ha = delta x (44/28) / 1000 x 273 and total = per_ha x area; for
\* ji_et_al and 100 ha the delta is 0.118 kg N/ha, the per-hectare
\* reduction about 0.0506 and the total about 5.06 t-CO2e.
C12_ReducaoJiEtAl ==
    (chamada # Nenhum /\ chamada.op = "converter_emissao_para_tCO2eq"
        /\ modelo_retorno # Nenhum)
    => /\ modelo_retorno.tipo = "valor"
       /\ modelo_retorno.valor[2] =
            RMul(RDiv(RMul(chamada.emissao_kg_N_ha, Rat(44, 28)), Int2Rat(1000)),
                 Int2Rat(273))
       /\ modelo_retorno.valor[1] = RMul(modelo_retorno.valor[2], chamada.area_ha)
       /\ ChamadaJi100 =>
            /\ chamada.emissao_kg_N_ha = Rat(118, 1000)
            /\ Perto(modelo_retorno.valor[2], Rat(506, 10000), Rat(1, 10000))
            /\ Perto(modelo_retorno.valor[1], Rat(506, 100), Rat(1, 100))

C12_Witness ==
    /\ chamada # Nenhum
    /\ ChamadaJi100
    /\ modelo_retorno # Nenhum
    /\ modelo_retorno.valor = <<Rat(50622, 10000), Rat(50622, 1000000)>>

\* the price and nitrogen content of the treatment a label selects
PrecoSelecionado(c) ==
    IF c.tipo \in {"convencional", "Convencional"} THEN c.preco_ureia ELSE c.preco_crf

TeorSelecionado(c) ==
    IF c.tipo \in {"convencional", "Convencional"} THEN Rat(46, 100) ELSE Rat(42, 100)

ChamadaCustoExemplo ==
    /\ chamada.op = "calcular_custo_fertilizante"
    /\ chamada.dosagem_n = Int2Rat(240)
    /\ chamada.preco_ureia = Int2Rat(1500)
    /\ chamada.preco_crf = Int2Rat(2500)

\* the cost per hectare the call in `chamada` would return for label t
CustoHaExemplo(t) ==
    calcular_custo_fertilizante(t, chamada.area_ha, chamada.preco_ureia,
                                chamada.preco_crf, chamada.dosagem_n)[2]

\* C13: cost/ha = (dosage / N content of the selected treatment) / 1000 x
\* price of that treatment and total = cost/ha x area; with dosage 240,
\* prices 1500 and 2500 the costs per hectare are about 782.6 and 1428.6
\* and the incremental cost about 645.9.
C13_CustoFertilizante ==
    (chamada # Nenhum /\ chamada.op = "calcular_custo_fertilizante"
        /\ modelo_retorno # Nenhum)
    => /\ modelo_retorno.tipo = "valor"
       /\ modelo_retorno.valor[2] =
            RMul(RDiv(RDiv(chamada.dosagem_n, TeorSelecionado(chamada)),
                      Int2Rat(1000)),
                 PrecoSelecionado(chamada))
       /\ modelo_retorno.valor[1] = RMul(modelo_retorno.valor[2], chamada.area_ha)
       /\ ChamadaCustoExemplo =>
            /\ chamada.tipo = "convencional" =>
                    Perto(modelo_retorno.valor[2], Rat(7826, 10), Rat(1, 10))
            /\ chamada.tipo = "crf" =>
                    /\ Perto(modelo_retorno.valor[2], Rat(14286, 10), Rat(1, 10))
                    /\ Perto(RSub(modelo_retorno.valor[2],
                                  CustoHaExemplo("convencional")),
                             Rat(6459, 10), Rat(1, 10))

C13_Witness ==
    /\ chamada # Nenhum
    /\ ChamadaCustoExemplo
    /\ chamada.tipo = "crf"
    /\ chamada.area_ha = Int2Rat(100)
    /\ modelo_retorno # Nenhum
    /\ modelo_retorno.valor[2] = Rat(10000, 7)

\* C14: the four operations are total: for any input, an unknown study
\* identifier or treatment label included, the call returns a value.
C14_ModeloTotal ==
    modelo_retorno # Nenhum => modelo_retorno.tipo = "valor"

----------------------------------------------------------------------------
(* Further claims about simulacao_monte_carlo (SpecMC)                     *)

\* the keys of the physically non-negative parameters
ChavesNaoNegativas ==
    {"emissao_convencional", "emissao_crf", "preco_carbono", "preco_ureia",
     "preco_crf"}

\* C17: in every trial the perturbed emission rates, carbon price, urea
\* price and CRF price the model is evaluated with are non-negative.
C17_ParametrosNaoNegativos ==
    \A i \in 1..Len(mc_params) :
        \A key \in ChavesNaoNegativas : RGe(mc_params[i][key], Zero)

\* the call whose trials mc_params holds has returned
MCTerminou == mc_pc \in {"retornou", "ocioso"} /\ mc_retorno # Nenhum

\* carbon revenue + yield benefit - incremental fertilizer cost, per hectare
FluxoDeclarado(params) ==
    LET reducao ==
            RMul(RDiv(RMul(RSub(params["emissao_convencional"], params["emissao_crf"]),
                           Rat(44, 28)), Int2Rat(1000)), Int2Rat(273))
        receita == RMul(RMul(reducao, params["preco_carbono"]), params["taxa_cambio"])
        beneficio ==
            IF params["estudo"] = "ji_et_al" THEN Zero
            ELSE RMul(RMul(params["rendimento_base"],
                           RDiv(params["aumento_rendimento"], Int2Rat(100))),
                      params["preco_produto"])
        custo_crf ==
            RMul(RDiv(RDiv(params["dosagem_n"], Rat(42, 100)), Int2Rat(1000)),
                 params["preco_crf"])
        custo_ureia ==
            RMul(RDiv(RDiv(params["dosagem_n"], Rat(46, 100)), Int2Rat(1000)),
                 params["preco_ureia"])
    IN  RSub(RAdd(receita, beneficio), RSub(custo_crf, custo_ureia))

\* C18: each trial's NPV is its annual net flow (carbon revenue + yield
\* benefit - incremental fertilizer cost) discounted over exactly 5 years
\* at exactly 6%, whatever horizon and rate the simulation was given.
C18_VplCincoAnosSeisPorCento ==
    MCTerminou
    => \A i \in 1..n_simulacoes :
        /\ mc_retorno.vpl[i].fluxo = FluxoDeclarado(mc_params[i])
        /\ mc_retorno.vpl[i].fator = SomaPotencias(RDiv(One, Rat(106, 100)), 5)

C18_Witness ==
    /\ MCTerminou
    /\ entradas.anos_simulacao = 10
    /\ entradas.taxa_desconto = Rat(10, 100)
    /\ n_simulacoes = 2
    /\ mc_retorno.vpl[1].fluxo # mc_retorno.vpl[2].fluxo
    /\ mc_retorno.vpl[2].fator = Rat(1761591550, 418195493)

\* C19: the perturbed parameters of a trial depend on the seed, the inputs
\* and the trial's own index only, not on the evaluations (other trials,
\* an earlier run) executed before it.
C19_TrialsIndependentes ==
    \A i \in 1..Len(mc_params) :
        LET k == NumSorteios(params_base)
        IN  mc_params[i] =
                ParamsSorteados(params_base,
                                SubSeq(rng_fluxo, (i - 1) * k + 1, i * k))

----------------------------------------------------------------------------
(* Claims about the minimum carbon price (SpecResumo)                      *)

C15_ResumoNaoAplicavel ==
    (entradas # Nenhum /\ RLe(ReducaoHa(entradas), Zero))
    => metrica_preco_minimo.tipo \in {"nenhum", "sem metrica", "N/A"}

----------------------------------------------------------------------------
(* Claims about the quote providers (SpecCotacao)                          *)

\* the scrape of the carbon page succeeded
ScrapeSucedeu ==
    /\ resposta_investing.tipo = "pagina"
    /\ \/ \E k \in 1..NumSeletores :
            /\ resposta_investing.elementos[k] # <<"ausente">>
            /\ FloatValido(LimpaPreco(resposta_investing.elementos[k]))
       \/ \E k \in 1..Len(resposta_investing.capturas) :
            /\ FloatValido(SemVirgulas(resposta_investing.capturas[k]))
            /\ RLt(Int2Rat(50), Float(SemVirgulas(resposta_investing.capturas[k])))
            /\ RLt(Float(SemVirgulas(resposta_investing.capturas[k])), Int2Rat(200))

\* the first, the second FX service failed
AwesomeFalhou == ~AwesomeResponde(resposta_awesome)

ExchangeRateFalhou == ~ExchangeRateResponde(resposta_exchangerate)

ImpactoDeclarado(estudo) ==
    CASE estudo = "ji_et_al" -> Rat(-5, 1)
      [] estudo = "shakoor_et_al" -> Rat(3, 1)
      [] estudo = "zhang_et_al_2025" -> Rat(115, 10)

\* C21: calcular_rendimento returns the base yield times 1 for the
\* conventional treatment and times (1 + impact/100) of the selected study
\* for any other treatment, the impact being -5 for ji_et_al, +3 for
\* shakoor_et_al and +11.5 for zhang_et_al_2025; the total yield is the
\* per-hectare yield times the area.
C21_RendimentoAjustado ==
    (chamada # Nenhum /\ chamada.op = "calcular_rendimento"
        /\ chamada.estudo \in Estudos /\ modelo_retorno # Nenhum)
    => /\ modelo_retorno.tipo = "valor"
       /\ modelo_retorno.valor[2] =
            IF Lower(chamada.tipo) = "convencional"
            THEN RMul(chamada.rendimento_base, One)
            ELSE RMul(chamada.rendimento_base,
                      RAdd(One, RDiv(ImpactoDeclarado(chamada.estudo), Int2Rat(100))))
       /\ modelo_retorno.valor[1] = RMul(modelo_retorno.valor[2], chamada.area_ha)

\* the alternative treatment of the study with the negative impact:
\* 5 t/ha becomes 4.75 t/ha, 475 t on 100 ha
C21_Witness ==
    /\ chamada # Nenhum /\ chamada.op = "calcular_rendimento"
    /\ chamada.estudo = "ji_et_al" /\ chamada.tipo = "CRF"
    /\ chamada.rendimento_base = Int2Rat(5) /\ chamada.area_ha = Int2Rat(100)
    /\ modelo_retorno # Nenhum /\ modelo_retorno.tipo = "valor"
    /\ modelo_retorno.valor = <<Int2Rat(475), Rat(475, 100)>>

(***************************************************************************)
(* Claims about the highlighted scenarios (SpecCenarios)                   *)
(***************************************************************************)

Linhas == 1..Len(resultados_cenarios)

Melhores == {i \in Linhas : resultados_cenarios[i].fundo_vpl = "lightgreen"}
Piores == {i \in Linhas : resultados_cenarios[i].fundo_vpl = "lightcoral"}

VplsDistintos ==
    \A i \in Linhas, j \in Linhas :
        i # j => resultados_cenarios[i].vpl_cenario # resultados_cenarios[j].vpl_cenario

\* C22: the scenario marked as best has an NPV that is maximal among the
\* scenarios and the scenario marked as worst one that is minimal; when all
\* scenario NPVs are distinct, one scenario is marked best and another one
\* is marked worst.
C22_MelhorEPiorCenario ==
    resultados_cenarios # <<>>
    => /\ \A i \in Melhores : \A j \in Linhas :
            RLe(resultados_cenarios[j].vpl_cenario, resultados_cenarios[i].vpl_cenario)
       /\ \A i \in Piores : \A j \in Linhas :
            RLe(resultados_cenarios[i].vpl_cenario, resultados_cenarios[j].vpl_cenario)
       /\ VplsDistintos => (Melhores # {} /\ Piores # {} /\ Melhores \cap Piores = {})

\* what the code does establish: the marks follow the amounts rounded to
\* hundredths, the first of equal rounded amounts being taken
C22_DestaquePorCentesimos ==
    resultados_cenarios # <<>>
    => /\ Cardinality(Melhores) = 1
       /\ \A i \in Melhores : \A j \in Linhas :
            /\ Round2(resultados_cenarios[j].vpl_cenario)
                    <= Round2(resultados_cenarios[i].vpl_cenario)
            /\ j < i => Round2(resultados_cenarios[j].vpl_cenario)
                            < Round2(resultados_cenarios[i].vpl_cenario)
       /\ \A i \in Piores : \A j \in Linhas :
            /\ Round2(resultados_cenarios[i].vpl_cenario)
                    <= Round2(resultados_cenarios[j].vpl_cenario)
            /\ j < i => Round2(resultados_cenarios[i].vpl_cenario)
                            < Round2(resultados_cenarios[j].vpl_cenario)
       /\ (\E i \in Linhas, j \in Linhas :
                Round2(resultados_cenarios[i].vpl_cenario)
                    # Round2(resultados_cenarios[j].vpl_cenario))
            => Cardinality(Piores) = 1

(***************************************************************************)
(* Claims about the inputs of the engines                                  *)
(***************************************************************************)

\* C23: no step of an engine changes the mapping it was given: the
\* analyzer's input mapping, the baseline mapping of the Monte Carlo engine
\* and the Sobol problem stay as they were passed (the registry
\* DADOS_ARTIGOS is read by none of the three engines and is a constant).
C23_EntradasInalteradas ==
    [][/\ dados_simulacao' = dados_simulacao
       /\ params_base' = params_base
       /\ problema' = problema]_vars

\* the parts of C23 that the analyzer and the Monte Carlo engine establish
C23_DadosSimulacaoInalterados == [][dados_simulacao' = dados_simulacao]_vars

C23_ParamsBaseInalterado == [][params_base' = params_base]_vars

\* what the Sobol engine leaves of its problem: the entries it was given
C23_ProblemaMantemEntradas ==
    [][\A k \in DOMAIN problema : k \in DOMAIN problema' /\ problema'[k] = problema[k]]_vars

(***************************************************************************)
(* Claims about the scalar of the Sobol engine (SpecSobol)                 *)
(***************************************************************************)

\* the annual flow per hectare of a design row, from the functions of the
\* deterministic model: the carbon revenue of the emission difference at
\* 5.5 reais a euro, plus the yield term, minus the incremental cost
FluxoDaLinha(parametros) ==
    LET reducao_ha == converter_emissao_para_tCO2eq(parametros[3], One)[1]
        receita_ha == calcular_receita_carbono(reducao_ha, parametros[1], Rat(55, 10))[1]
    IN  RSub(RAdd(receita_ha, RMul(parametros[2], Int2Rat(1000))), parametros[4])

\* sum of 1 / 1.06 ** t for t = 1..h
FatorDesconto(h) == RSum([t \in 1..h |-> RDiv(One, RPow(Rat(106, 100), t))])

\* the horizons a fixed horizon may be
HorizontesFixos == 1..5

\* C24: the scalar evaluated at each design row is the NPV per hectare over
\* a fixed horizon: the carbon revenue of the emission difference, plus the
\* yield benefit, minus the incremental cost, discounted over that horizon.
C24_EscalarVplPorHectare ==
    \E h \in HorizontesFixos :
        \A i \in 1..Len(resultados_sobol) :
            LET fluxo == FluxoDaLinha(param_values[i])
            IN  IF fluxo = Zero THEN resultados_sobol[i] = Zero
                ELSE RDiv(resultados_sobol[i], fluxo) = FatorDesconto(h)

\* what the engine evaluates: the annual flow of the row, not discounted
C24_EscalarFluxoAnual ==
    \A i \in 1..Len(resultados_sobol) :
        resultados_sobol[i] = FluxoDaLinha(param_values[i])

(***************************************************************************)
(* Further claims about analise_viabilidade_economica (SpecViab)           *)
(***************************************************************************)

\* C25: for a horizon >= 1 and a discount rate greater than -1, the payback
\* returned is 1 or horizon+1, and it is at most the horizon exactly when
\* the returned NPV is >= 0.
C25_PaybackImediatoOuNunca ==
    (retorno.tipo = "valor" /\ AnosUsado.n >= 1 /\ RGt(TaxaUsada, Int2Rat(-1)))
    => /\ retorno.payback \in {1, AnosUsado.n + 1}
       /\ (retorno.payback <= AnosUsado.n) <=> RGe(retorno.vpl, Zero)

\* both outcomes with the longest horizon: a positive flow recovered in
\* year 1, and a negative flow never recovered
C25_Witness ==
    /\ retorno.tipo = "valor" /\ ~st_error
    /\ AnosUsado.n = MaxAnos /\ TaxaUsada = Rat(1, 2)
    /\ FluxoConstante.n > 0
    /\ retorno.payback = 1 /\ RGt(retorno.vpl, Zero)

(***************************************************************************)
(* Claims about the current scenario and the base analysis (SpecCenarios)  *)
(***************************************************************************)

\* C26: the NPV per hectare of the scenario with multiplier 1 equals the NPV
\* that analise_viabilidade_economica returned for the same inputs, and the
\* scenario is flagged viable exactly when that NPV is positive.
C26_CenarioAtualIgualBase ==
    (resultados_cenarios # <<>> /\ retorno # Nenhum /\ retorno.tipo = "valor")
    => /\ Cenarios[1].multiplicador = One
       /\ RDiv(resultados_cenarios[1].vpl_cenario, entradas.area_total) = retorno.vpl
       /\ (resultados_cenarios[1].viavel = "SIM") <=> RGt(retorno.vpl, Zero)

\* what holds: the two agree for the studies whose yield impact is not
\* negative
C26_IgualSemPerdaDeRendimento ==
    (resultados_cenarios # <<>> /\ retorno # Nenhum /\ retorno.tipo = "valor"
        /\ RGe(RendimentoAdicionalHa(entradas), Zero))
    => /\ RDiv(resultados_cenarios[1].vpl_cenario, entradas.area_total) = retorno.vpl
       /\ (resultados_cenarios[1].viavel = "SIM") <=> RGt(retorno.vpl, Zero)

(***************************************************************************)
(* Claims about the Monte Carlo trial at the baseline (SpecMC)             *)
(***************************************************************************)

\* the trials of the running or finished call whose draws all fell on their
\* means: the perturbed parameters are the baseline ones
TrialsNaMedia == {i \in 1..Len(mc_params) : mc_params[i] = params_base}

\* the annual flow per hectare the viability analysis computes from the
\* inputs of the same run
FluxoBase == FluxoAnualHa(DadosViabilidade(entradas))

\* C27: a Monte Carlo trial in which every draw equals its baseline mean
\* has the annual net flow per hectare that the viability analysis computes
\* for the same inputs.
C27_TrialNaMediaIgualBase ==
    \A i \in TrialsNaMedia :
        i <= Len(resultados_mc.vpl) => resultados_mc.vpl[i].fluxo = FluxoBase

\* what holds: the two flows agree for the studies with a yield gain
C27_IgualComGanhoDeRendimento ==
    params_base # Nenhum /\ params_base.estudo \in {"shakoor_et_al", "zhang_et_al_2025"}
    => \A i \in TrialsNaMedia :
        i <= Len(resultados_mc.vpl) => resultados_mc.vpl[i].fluxo = FluxoBase

----------------------------------------------------------------------------
(* Claims about the session (SpecSessao, SpecSessaoJusta)                  *)

\* C28: whenever a run of main enters the simulation branch (line 1032),
\* the sidebar radio is in the mode "Simulacao de Viabilidade" in that same
\* run, so estudo_selecionado and the other inputs are defined.
C28_SimulacaoComBarraDeSimulacao ==
    (execucao # Nenhum /\ execucao.ramo = "simulacao")
        => (execucao.barra = ModoSimulacao /\ execucao.erro = "nenhum")

\* the simulation branch is entered with the radio in the simulation mode
\* whenever the run was started by the button of that mode
C28_SimulacaoPeloBotao ==
    (execucao # Nenhum /\ execucao.gatilho = "executar")
        => /\ execucao.ramo = "simulacao"
           /\ execucao.barra = ModoSimulacao
           /\ execucao.erro = "nenhum"

\* a run started by the first load or by a click on the refresh button
RefrescoPedido ==
    /\ execucao # Nenhum
    /\ execucao.gatilho \in {"abrir", "atualizar"}

\* the run that follows the st.rerun() of exibir_cotacao_carbono
AposRefresco ==
    /\ execucao # Nenhum
    /\ execucao.gatilho = "rerun"
    /\ execucao.origem = "exibir_cotacao_carbono"

====
